---- MODULE Spec2Model ----
(***************************************************************************)
(* LedgerZero (src/app.js): the record store, the CRUD handlers that write *)
(* it, and the calculation engine (computeBalances, computeMonthlyPnl,     *)
(* computeTradeStats) that reads it.                                       *)
(*                                                                         *)
(* Representation.                                                         *)
(*  - A text typed into a form field is a sequence of one-character        *)
(*    strings, <<"-","3","0">> for "-30".                                  *)
(*  - A monetary amount is an integer number of hundredths (the JS number  *)
(*    12.5 is 1250); an R-multiple likewise.  Sums are exact: the          *)
(*    rounding of IEEE doubles is not modelled.                            *)
(*  - A calendar date "YYYY-MM-DD" is the triple <<Y, M, D>>; the order of *)
(*    the zero-padded strings is the lexicographic order of the triples.   *)
(*  - null / undefined / NaN is Null, the empty tuple; an optional number  *)
(*    n is <<n>>.                                                          *)
(*  - An instant is a number of hours since 2024-01-01T00:00Z; tz is the   *)
(*    offset of local time from UTC in hours.                              *)
(*  - An object store is a function from the stored keys to the records;   *)
(*    idbGetAll returns the records in ascending key order.                *)
(***************************************************************************)
EXTENDS Integers, Sequences, FiniteSets, TLC

VARIABLES
    accounts,        \* object store "accounts"
    transactions,    \* object store "transactions"
    debts,           \* object store "debts"
    positions,       \* object store "positions"
    instruments,     \* object store "instruments"
    trades,          \* object store "trades"
    state,           \* the app state: horizonDays, includeConfidenceMin
    now,             \* the clock, hours since the epoch (UTC)
    tz,              \* local time = UTC + tz hours
    kpiActual,       \* the text of #kpiActual that render() last wrote
    goals,           \* object store "goals"
    categories,      \* object store "categories"
    snapshots,       \* object store "snapshots"
    meta,            \* object store "meta" (key path "key")
    alerts,          \* the lines of #alerts that render() last wrote
    tab,             \* state.tab
    view,            \* the tab whose view render() last wrote into #view
    passes,          \* the calls of render() in progress, in the order of their start
    job,             \* the handler that is between its awaits, Null when none is
    rejected         \* the error of the last render() that was rejected, or Null

\* The page and what runs on it.
ui == <<tab, view, passes, job, rejected>>

vars == <<accounts, transactions, debts, positions, instruments, trades, state, now, tz,
          kpiActual, goals, categories, snapshots, meta, alerts, ui>>

Null == <<>>

----------------------------------------------------------------------------
(* Bounds of the model.                                                    *)

MaxAccounts == 2
MaxTxs == 2
MaxDebts == 2
MaxPositions == 1
MaxInstruments == 1
MaxTrades == 3
MaxClock == 1442
MaxGoals == 4

AccountIds == 1..MaxAccounts
TxIds == 1..MaxTxs

\* The transactions that a CSV import may create.
MaxCsvTxs == 4
CsvTxIds == (MaxTxs + 1)..(MaxTxs + MaxCsvTxs)
DebtIds == 1..MaxDebts
PositionIds == 1..MaxPositions
InstrumentIds == 1..MaxInstruments
TradeIds == 1..MaxTrades
GoalIds == 1..MaxGoals

----------------------------------------------------------------------------
(* Arithmetic helpers.                                                     *)

clamp(n, a, b) ==
    LET mn == IF b < n THEN b ELSE n
    IN  IF a > mn THEN a ELSE mn

\* Mutant: the sign is kept.
Abs_Identity(n) == n

Abs(n) == IF n < 0 THEN -n ELSE n

Min2(a, b) == IF a < b THEN a ELSE b

\* Array.prototype.reduce((s, x) => s + x, 0) over a sequence of numbers.
RECURSIVE ReduceSum(_, _)
ReduceSum(seq, acc) ==
    IF seq = <<>> THEN acc ELSE ReduceSum(Tail(seq), acc + Head(seq))

\* The keys of a store in ascending order, the order of IDBObjectStore.getAll.
RECURSIVE KeysAscending(_)
KeysAscending(S) ==
    IF S = {} THEN <<>>
    ELSE LET m == CHOOSE x \in S : \A y \in S : x <= y
         IN  <<m>> \o KeysAscending(S \ {m})

idbGetAll(store) ==
    LET ks == KeysAscending(DOMAIN store)
    IN  [i \in 1..Len(ks) |-> store[ks[i]]]

idbPut(store, value) ==
    [k \in DOMAIN store \cup {value.id} |-> IF k = value.id THEN value ELSE store[k]]

\* Mutant: the delete empties the collection.
idbDelete_Clear(store, key) == [k \in {} |-> store[k]]

idbDelete(store, key) == [k \in DOMAIN store \ {key} |-> store[k]]

EmptyStore == [k \in {} |-> Null]

----------------------------------------------------------------------------
(* Calendar: JS Date on date-only ISO strings and on local dates.          *)

\* The instant 0 is midnight UTC of this date.
Epoch == <<2024, 1, 1>>

EpochYear == Epoch[1]

IsLeap(y) == (y % 4 = 0 /\ y % 100 # 0) \/ y % 400 = 0

DaysInMonth(y, m) ==
    IF m = 2 THEN (IF IsLeap(y) THEN 29 ELSE 28)
    ELSE IF m \in {4, 6, 9, 11} THEN 30 ELSE 31

DaysInYear(y) == IF IsLeap(y) THEN 366 ELSE 365

RECURSIVE DaysBeforeMonth(_, _)
DaysBeforeMonth(y, m) ==
    IF m = 1 THEN 0 ELSE DaysBeforeMonth(y, m - 1) + DaysInMonth(y, m - 1)

RECURSIVE DaysBeforeYear(_)
DaysBeforeYear(y) ==
    IF y <= EpochYear THEN 0 ELSE DaysBeforeYear(y - 1) + DaysInYear(y - 1)

\* new Date("YYYY-MM-DD").getTime(): midnight UTC of that day, in hours.
DateParseUTC(d) == (DaysBeforeYear(d[1]) + DaysBeforeMonth(d[1], d[2]) + d[3] - 1) * 24

RECURSIVE DateFromDays(_, _, _)
DateFromDays(y, m, n) ==
    IF n >= DaysInYear(y) /\ m = 1 THEN DateFromDays(y + 1, 1, n - DaysInYear(y))
    ELSE IF n >= DaysInMonth(y, m) THEN DateFromDays(y, m + 1, n - DaysInMonth(y, m))
    ELSE <<y, m, n + 1>>

\* toISODate(new Date(t)): the local calendar date of the instant t.
toISODate(t) == DateFromDays(EpochYear, 1, (t + tz) \div 24)

startOfMonthISO == LET d == toISODate(now) IN <<d[1], d[2], 1>>

\* new Date(y, m + 1, 0) is the last day of month m.
endOfMonthISO == LET d == toISODate(now) IN <<d[1], d[2], DaysInMonth(d[1], d[2])>>

\* a < b and a <= b on date strings (code-unit order of "YYYY-MM-DD").
DateLt(a, b) ==
    \/ a[1] < b[1]
    \/ a[1] = b[1] /\ a[2] < b[2]
    \/ a[1] = b[1] /\ a[2] = b[2] /\ a[3] < b[3]

DateLe(a, b) == a = b \/ DateLt(a, b)

----------------------------------------------------------------------------
(* Amount/number normalization of typed text.                              *)

Digits == <<"0", "1", "2", "3", "4", "5", "6", "7", "8", "9">>

IsDigit(c) == \E i \in 1..10 : Digits[i] = c

DigitVal(c) == (CHOOSE i \in 1..10 : Digits[i] = c) - 1

RECURSIVE DigitsValue(_, _)
DigitsValue(ds, acc) ==
    IF ds = <<>> THEN acc ELSE DigitsValue(Tail(ds), acc * 10 + DigitVal(Head(ds)))

\* Mutant: the first occurrence instead of the last.
lastIndexOf_First(t, c) ==
    IF \E i \in 1..Len(t) : t[i] = c
    THEN CHOOSE i \in 1..Len(t) : t[i] = c /\ \A j \in 1..(i - 1) : t[j] # c
    ELSE 0

\* String.prototype.lastIndexOf, 1-based; 0 when absent (JS: -1).
RECURSIVE lastIndexOf(_, _)
lastIndexOf(t, c) ==
    IF t = <<>> THEN 0
    ELSE IF t[Len(t)] = c THEN Len(t)
    ELSE lastIndexOf(SubSeq(t, 1, Len(t) - 1), c)

\* Number(t) for a text over [0-9.+-], in hundredths; Null is NaN.
\* StrDecimalLiteral: sign? (digits ("." digits?)? | "." digits); "" is 0.
\* Fraction digits beyond the second are not representable in hundredths:
\* the typed texts of the model carry at most two.
Number(t) ==
    IF t = <<>> THEN <<0>>
    ELSE
      LET signed == Head(t) \in {"+", "-"}
          body   == IF signed THEN Tail(t) ELSE t
          dot    == lastIndexOf(body, ".")
          ip     == IF dot = 0 THEN body ELSE SubSeq(body, 1, dot - 1)
          fp     == IF dot = 0 THEN <<>> ELSE SubSeq(body, dot + 1, Len(body))
          wellFormed ==
              /\ \A i \in 1..Len(ip) : IsDigit(ip[i])
              /\ \A i \in 1..Len(fp) : IsDigit(fp[i])
              /\ Len(ip) + Len(fp) > 0
          f2     == SubSeq(fp \o <<"0", "0">>, 1, 2)
          mag    == DigitsValue(ip, 0) * 100 + DigitsValue(f2, 0)
      IN  IF ~wellFormed THEN Null
          ELSE IF signed /\ Head(t) = "-" THEN <<-mag>> ELSE <<mag>>

parseAmount(s) ==
    IF s = <<>> THEN 0
    ELSE
      LET t0 == SelectSeq(s, LAMBDA c : IsDigit(c) \/ c \in {".", ",", "-", "+"})
          lastDot   == lastIndexOf(t0, ".")
          lastComma == lastIndexOf(t0, ",")
          decSep == IF lastDot > lastComma THEN "."
                    ELSE IF lastComma > lastDot THEN "," ELSE ""
          last   == IF decSep = "." THEN lastDot ELSE lastComma
          t == IF decSep # ""
               THEN LET frac    == SubSeq(t0, last + 1, Len(t0))
                        intPart == SelectSeq(SubSeq(t0, 1, last - 1),
                                             LAMBDA c : c \notin {".", ","})
                    IN  intPart \o <<".">> \o frac
               ELSE SelectSeq(t0, LAMBDA c : c \notin {".", ","})
          n == Number(t)
      IN  IF n = Null THEN 0 ELSE n[1]

\* parseInt(s, 10) of a text: optional sign, then the longest digit prefix.
RECURSIVE DigitPrefix(_)
DigitPrefix(t) ==
    IF t = <<>> \/ ~IsDigit(Head(t)) THEN <<>> ELSE <<Head(t)>> \o DigitPrefix(Tail(t))

RECURSIVE TrimStart(_)
TrimStart(t) == IF t # <<>> /\ Head(t) = " " THEN TrimStart(Tail(t)) ELSE t

parseInt(s) ==
    LET t      == TrimStart(s)
        signed == t # <<>> /\ Head(t) \in {"+", "-"}
        ds     == DigitPrefix(IF signed THEN Tail(t) ELSE t)
    IN  IF ds = <<>> THEN Null
        ELSE IF signed /\ Head(t) = "-" THEN <<-DigitsValue(ds, 0)>>
        ELSE <<DigitsValue(ds, 0)>>

----------------------------------------------------------------------------
(* Calculations: computeBalances.                                          *)

\* x || 0 on a stored monetary field, which always holds a finite number.
OrZero(x) == x

StartingBalances(accs) == [i \in 1..Len(accs) |-> OrZero(accs[i].startingBalance)]

Amounts(recs) == [i \in 1..Len(recs) |-> OrZero(recs[i].amount)]

\* accounts.find(a => a.id === id)?.type; "" stands for undefined.
FindAccountType(accs, id) ==
    IF \E i \in 1..Len(accs) : accs[i].id = id
    THEN accs[CHOOSE i \in 1..Len(accs) :
                  accs[i].id = id /\ \A j \in 1..(i - 1) : accs[j].id # id].type
    ELSE ""

\* Mutant: only the transactions of stored accounts are counted.
ActualCash_OnlyStoredAccounts(accs, txs) ==
    ReduceSum(StartingBalances(accs), 0)
    + ReduceSum(Amounts(SelectSeq(txs,
          LAMBDA t : FindAccountType(accs, t.accountId) # "")), 0)

ActualCash(accs, txs) ==
    ReduceSum(StartingBalances(accs), 0) + ReduceSum(Amounts(txs), 0)

\* Mutant: a transaction of no stored account is counted as a bank one.
CashInBank_CountsDangling(accs, txs) ==
    ReduceSum(StartingBalances(SelectSeq(accs, LAMBDA a : a.type = "Banka")), 0)
    + ReduceSum(Amounts(SelectSeq(txs,
          LAMBDA t : FindAccountType(accs, t.accountId) \in {"Banka", ""})), 0)

CashInBank(accs, txs) ==
    ReduceSum(StartingBalances(SelectSeq(accs, LAMBDA a : a.type = "Banka")), 0)
    + ReduceSum(Amounts(SelectSeq(txs,
          LAMBDA t : FindAccountType(accs, t.accountId) = "Banka")), 0)

\* Mutant: every receivable that is not closed counts as open.
OpenReceivables_NotClosed(dbts) ==
    SelectSeq(dbts, LAMBDA d : d.direction = "receivable" /\ d.status # "closed")

OpenReceivables(dbts) ==
    SelectSeq(dbts, LAMBDA d : d.direction = "receivable" /\ d.status = "open")

\* Mutant: every open debt counts as payable, whatever its direction.
OpenPayables_AnyDirection(dbts) ==
    SelectSeq(dbts, LAMBDA d : d.status = "open")

OpenPayables(dbts) ==
    SelectSeq(dbts, LAMBDA d : d.direction = "payable" /\ d.status = "open")

\* new Date(today.getTime() + state.horizonDays * 86400000)
Horizon(st, t) == t + st.horizonDays * 24

\* A stored dueDate is null or a date-only ISO string, which new Date() reads
\* as midnight UTC.
DueWithin(dbts, st, t) ==
    SelectSeq(OpenReceivables(dbts),
              LAMBDA d : IF d.dueDate = Null THEN TRUE
                         ELSE DateParseUTC(d.dueDate) <= Horizon(st, t))

\* d.confidence ?? 60
ConfidenceOf(d) == IF d.confidence = Null THEN 60 ELSE d.confidence[1]

\* Mutant: a confidence equal to the threshold is left out.
ExpectedIncluded_Strict(dbts, st, t) ==
    SelectSeq(DueWithin(dbts, st, t),
              LAMBDA d : ConfidenceOf(d) > st.includeConfidenceMin)

ExpectedIncluded(dbts, st, t) ==
    SelectSeq(DueWithin(dbts, st, t),
              LAMBDA d : ConfidenceOf(d) >= st.includeConfidenceMin)

\* clamp(confidence / 100, 0, 1), in percent.
Probability(d) == clamp(ConfidenceOf(d), 0, 100)

\* reduce((s, d) => s + amount * p): each term in 1/100 of a hundredth.
WeightedAmounts(recs) ==
    [i \in 1..Len(recs) |-> OrZero(recs[i].amount) * Probability(recs[i])]

ExpectedCash(actualCash, dbts, st, t) ==
    actualCash + ReduceSum(Amounts(ExpectedIncluded(dbts, st, t)), 0)

\* Mutant: only the receivables that pass the confidence threshold are weighted.
RiskAdjustedCash_OnlyExpected(actualCash, dbts, st, t) ==
    100 * actualCash + ReduceSum(WeightedAmounts(ExpectedIncluded(dbts, st, t)), 0)

\* In 1/100 of a hundredth: actualCash * 100 + the sum of amount * percent.
RiskAdjustedCash(actualCash, dbts, st, t) ==
    100 * actualCash + ReduceSum(WeightedAmounts(DueWithin(dbts, st, t)), 0)

CurrentValues(poss) == [i \in 1..Len(poss) |-> OrZero(poss[i].currentValue)]

CostBases(poss) == [i \in 1..Len(poss) |-> OrZero(poss[i].qty) * OrZero(poss[i].avgCost)]

\* The report.  riskAdjustedCash is carried in 1/100 of a hundredth (the sum
\* of amount * percent), investmentsCost in hundredths squared; every other
\* metric in hundredths.
computeBalances(accStore, txStore, debtStore, posStore, st, t) ==
    LET accs == idbGetAll(accStore)
        txs  == idbGetAll(txStore)
        dbts == idbGetAll(debtStore)
        poss == idbGetAll(posStore)
        actualCash == ActualCash(accs, txs)
        investmentsCurrent == ReduceSum(CurrentValues(poss), 0)
        debtTotal == ReduceSum(Amounts(OpenPayables(dbts)), 0)
    IN  [ accounts |-> accs, txs |-> txs, debts |-> dbts, positions |-> poss,
          actualCash |-> actualCash,
          cashInBank |-> CashInBank(accs, txs),
          expectedCash |-> ExpectedCash(actualCash, dbts, st, t),
          riskAdjustedCash |-> RiskAdjustedCash(actualCash, dbts, st, t),
          investmentsCurrent |-> investmentsCurrent,
          investmentsCost |-> ReduceSum(CostBases(poss), 0),
          openReceivablesTotal |-> ReduceSum(Amounts(OpenReceivables(dbts)), 0),
          openPayablesTotal |-> ReduceSum(Amounts(OpenPayables(dbts)), 0),
          debtTotal |-> debtTotal,
          netWorth |-> (actualCash + investmentsCurrent) - debtTotal ]

\* The report of the current store.
Balances == computeBalances(accounts, transactions, debts, positions, state, now)

\* Mutant: the balance shown leaves out the transfer legs.
AccountBalance_NoTransfers(a, txs) ==
    OrZero(a.startingBalance)
    + ReduceSum(Amounts(SelectSeq(txs,
          LAMBDA t : t.accountId = a.id /\ t.type # "transfer")), 0)

\* viewAccounts: the balance shown for account a.
AccountBalance(a, txs) ==
    OrZero(a.startingBalance)
    + ReduceSum(Amounts(SelectSeq(txs, LAMBDA t : t.accountId = a.id)), 0)

----------------------------------------------------------------------------
(* Calculations: computeMonthlyPnl and computeTradeStats.                  *)

\* Mutant: transfer-typed transactions are not skipped.
RECURSIVE PnlLoop_CountsTransfers(_, _, _, _, _)
PnlLoop_CountsTransfers(txs, start, end, income, expense) ==
    IF txs = <<>> THEN [income |-> income, expense |-> expense]
    ELSE
      LET t   == Head(txs)
          amt == OrZero(t.amount)
      IN  IF t.date = Null \/ DateLt(t.date, start) \/ DateLt(end, t.date)
          THEN PnlLoop_CountsTransfers(Tail(txs), start, end, income, expense)
          ELSE IF amt >= 0
               THEN PnlLoop_CountsTransfers(Tail(txs), start, end, income + amt, expense)
          ELSE PnlLoop_CountsTransfers(Tail(txs), start, end, income, expense + Abs(amt))

RECURSIVE PnlLoop(_, _, _, _, _)
PnlLoop(txs, start, end, income, expense) ==
    IF txs = <<>> THEN [income |-> income, expense |-> expense]
    ELSE
      LET t   == Head(txs)
          amt == OrZero(t.amount)
      IN  IF t.date = Null THEN PnlLoop(Tail(txs), start, end, income, expense)
          ELSE IF DateLt(t.date, start) \/ DateLt(end, t.date)
               THEN PnlLoop(Tail(txs), start, end, income, expense)
          ELSE IF t.type = "transfer"
               THEN PnlLoop(Tail(txs), start, end, income, expense)
          ELSE IF amt >= 0
               THEN PnlLoop(Tail(txs), start, end, income + amt, expense)
          ELSE PnlLoop(Tail(txs), start, end, income, expense + Abs(amt))

computeMonthlyPnl(txStore) ==
    LET start == startOfMonthISO
        end   == endOfMonthISO
        r     == PnlLoop(idbGetAll(txStore), start, end, 0, 0)
    IN  [ income |-> r.income, expense |-> r.expense,
          net |-> r.income - r.expense, start |-> start, end |-> end ]

\* Array.prototype.sort with (a.date).localeCompare(b.date): stable, ascending.
RECURSIVE InsertByDate(_, _)
InsertByDate(sorted, x) ==
    IF sorted = <<>> THEN <<x>>
    ELSE IF DateLt(x.date, Head(sorted).date) THEN <<x>> \o sorted
    ELSE <<Head(sorted)>> \o InsertByDate(Tail(sorted), x)

RECURSIVE SortByDate(_, _)
SortByDate(seq, sorted) ==
    IF seq = <<>> THEN sorted
    ELSE SortByDate(Tail(seq), InsertByDate(sorted, Head(seq)))

RMultiples(recs) == [i \in 1..Len(recs) |-> OrZero(recs[i].rMultiple)]

\* Mutant: the peak starts at the first trade's cumulative value, not at 0.
RECURSIVE DrawdownLoop_PeakFromFirst(_, _, _, _)
DrawdownLoop_PeakFromFirst(rs, peak, dd, cum) ==
    IF rs = <<>> THEN dd
    ELSE
      LET cum1  == cum + Head(rs)
          peak1 == IF cum = 0 /\ peak = 0 /\ dd = 0 THEN cum1
                   ELSE IF cum1 > peak THEN cum1 ELSE peak
      IN  DrawdownLoop_PeakFromFirst(Tail(rs), peak1, Min2(dd, cum1 - peak1), cum1)

RECURSIVE DrawdownLoop(_, _, _, _)
DrawdownLoop(rs, peak, dd, cum) ==
    IF rs = <<>> THEN dd
    ELSE
      LET cum1  == cum + Head(rs)
          peak1 == IF cum1 > peak THEN cum1 ELSE peak
      IN  DrawdownLoop(Tail(rs), peak1, Min2(dd, cum1 - peak1), cum1)

CountResult(month, res) == Len(SelectSeq(month, LAMBDA t : t.result = res))

\* winRate is carried as the pair <<wins * 100, total>> (the quotient is not an
\* integer), or <<0, 1>> when total is 0.
computeTradeStats(tradeStore) ==
    LET start == startOfMonthISO
        end   == endOfMonthISO
        month == SelectSeq(idbGetAll(tradeStore),
                     LAMBDA t : t.date # Null /\ DateLe(start, t.date) /\ DateLe(t.date, end))
        total == Len(month)
        wins  == CountResult(month, "win")
    IN  [ total |-> total, wins |-> wins,
          losses |-> CountResult(month, "loss"), bes |-> CountResult(month, "be"),
          totalR |-> ReduceSum(RMultiples(month), 0),
          winRate |-> IF total # 0 THEN <<wins * 100, total>> ELSE <<0, 1>>,
          maxDrawdownR |-> DrawdownLoop(RMultiples(SortByDate(month, <<>>)), 0, 0, 0) ]

----------------------------------------------------------------------------
(* Goals: goalProgress and renderAlerts.  A percentage (cur / target) * 100 *)
(* is carried as the pair <<cur * 100, target>>, 0 as <<0, 1>>, null as     *)
(* Null.                                                                   *)

GoalTypes == {"cashInBank", "actualCash", "investments", "netWorth", "monthlyExpenseCap"}

\* Mutant: a netWorth goal is measured against actualCash.
GoalCurrent_NetWorthIsCash(goal, balances, monthly) ==
    CASE goal.type = "cashInBank" -> <<balances.cashInBank>>
      [] goal.type = "actualCash" -> <<balances.actualCash>>
      [] goal.type = "investments" -> <<balances.investmentsCurrent>>
      [] goal.type = "netWorth" -> <<balances.actualCash>>
      [] goal.type = "monthlyExpenseCap" -> <<monthly.expense>>
      [] OTHER -> Null

\* The switch of goalProgress: <<cur>>, or Null for an unknown type.
GoalCurrent(goal, balances, monthly) ==
    CASE goal.type = "cashInBank" -> <<balances.cashInBank>>
      [] goal.type = "actualCash" -> <<balances.actualCash>>
      [] goal.type = "investments" -> <<balances.investmentsCurrent>>
      [] goal.type = "netWorth" -> <<balances.netWorth>>
      [] goal.type = "monthlyExpenseCap" -> <<monthly.expense>>
      [] OTHER -> Null

goalProgress(goal, balances, monthly) ==
    LET target == goal.targetValue
        cur    == GoalCurrent(goal, balances, monthly)
    IN  IF target = Null THEN Null
        ELSE IF cur = Null THEN Null
        ELSE IF target[1] # 0 THEN <<cur[1] * 100, target[1]>>
        ELSE <<0, 1>>

\* pct >= n for a percentage pair.
PctAtLeast(pct, n) ==
    IF pct[2] > 0 THEN pct[1] >= n * pct[2] ELSE pct[1] <= n * pct[2]

\* Math.round(pct): the nearest integer, halves upwards.
PctRound(pct) ==
    LET num == IF pct[2] > 0 THEN pct[1] ELSE -pct[1]
        den == IF pct[2] > 0 THEN pct[2] ELSE -pct[2]
    IN  (2 * num + den) \div (2 * den)

\* Mutant: a goal is expired as soon as the day of its endDate begins (UTC).
GoalExpired_FromMidnight(g, t) ==
    g.endDate # Null /\ DateParseUTC(g.endDate) <= t

\* if (g.endDate){ const ed = new Date(g.endDate); if (... && ed < now) continue; }
GoalExpired(g, t) ==
    g.endDate # Null /\ DateParseUTC(g.endDate) < t

\* The two "continue" tests at the head of the loop of renderAlerts.
GoalEvaluated(g, t) == g.status # "archived" /\ ~GoalExpired(g, t)

\* Mutant: every goal that has a percentage raises a line.
AlertOf_NoThreshold(g, balances, monthly, t) ==
    IF ~GoalEvaluated(g, t) THEN <<>>
    ELSE LET pct == goalProgress(g, balances, monthly)
         IN  IF pct = Null THEN <<>>
             ELSE << [goal |-> g.id, shown |-> PctRound(pct),
                      kind |-> IF g.type = "monthlyExpenseCap" THEN "warning" ELSE "notice"] >>

\* One pass of the loop of renderAlerts: the line goal g pushes, if any.
AlertOf(g, balances, monthly, t) ==
    IF ~GoalEvaluated(g, t) THEN <<>>
    ELSE LET pct == goalProgress(g, balances, monthly)
         IN  IF pct = Null THEN <<>>
             ELSE IF ~PctAtLeast(pct, 80) THEN <<>>
             ELSE << [goal |-> g.id, shown |-> PctRound(pct),
                      kind |-> IF g.type = "monthlyExpenseCap" THEN "warning" ELSE "notice"] >>

RECURSIVE AlertLoop(_, _, _, _, _)
AlertLoop(gs, balances, monthly, t, out) ==
    IF gs = <<>> THEN out
    ELSE AlertLoop(Tail(gs), balances, monthly, t,
                   out \o AlertOf(Head(gs), balances, monthly, t))

\* Mutant: every line is presented.
Slice3_All(seq) == seq

\* alerts.slice(0, 3)
Slice3(seq) == SubSeq(seq, 1, Min2(3, Len(seq)))

renderAlerts(goalStore, balances, monthly) ==
    Slice3(AlertLoop(idbGetAll(goalStore), balances, monthly, now, <<>>))

----------------------------------------------------------------------------
(* The goals view.  A JS number that may be NaN or infinite is a record:   *)
(* kind "finite" with the fraction num / den (den > 0), "nan", "inf" or    *)
(* "-inf".                                                                 *)

JsFinite(num, den) ==
    IF den > 0 THEN [kind |-> "finite", num |-> num, den |-> den]
    ELSE [kind |-> "finite", num |-> -num, den |-> -den]

JsSpecial(k) == [kind |-> k, num |-> 0, den |-> 1]

\* (cur / target) * 100 in IEEE arithmetic.
JsRatioTimes100(cur, target) ==
    IF target # 0 THEN JsFinite(cur * 100, target)
    ELSE IF cur = 0 THEN JsSpecial("nan")
    ELSE IF cur > 0 THEN JsSpecial("inf")
    ELSE JsSpecial("-inf")

\* clamp(x, a, b) = Math.max(a, Math.min(b, x)) for integers a <= b.
JsClamp(x, a, b) ==
    CASE x.kind = "nan" -> x
      [] x.kind = "inf" -> JsFinite(b, 1)
      [] x.kind = "-inf" -> JsFinite(a, 1)
      [] OTHER -> IF x.num > b * x.den THEN JsFinite(b, 1)
                  ELSE IF x.num < a * x.den THEN JsFinite(a, 1)
                  ELSE x

\* One card of viewGoals: pct, barPct and the width of the progress bar.
GoalCard(g, balances, monthly) ==
    LET p      == goalProgress(g, balances, monthly)
        c      == GoalCurrent(g, balances, monthly)
        cur    == IF c = Null THEN 0 ELSE c[1]
        target == IF g.targetValue = Null THEN 0 ELSE g.targetValue[1]
        barPct == JsClamp(JsRatioTimes100(cur, target), 0, 999)
    IN  [ goal |-> g.id,
          pct |-> JsClamp(IF p = Null THEN JsFinite(0, 1) ELSE JsFinite(p[1], p[2]), 0, 999),
          barPct |-> barPct,
          width |-> JsClamp(barPct, 0, 100) ]

viewGoals(goalStore, balances, monthly) ==
    LET gs == idbGetAll(goalStore)
    IN  [i \in 1..Len(gs) |-> GoalCard(gs[i], balances, monthly)]

----------------------------------------------------------------------------
(* The handlers.  Each is the whole callback: the reads, the writes to the *)
(* store and the render() that ends it.                                    *)

\* uid(): a key no stored record of the collection has.
FreshIds(store, ids) == ids \ DOMAIN store

\* render(): computeBalances on the store as written, then #kpiActual, then
\* renderAlerts.
Render(accStore, txStore, debtStore, posStore, goalStore, st) ==
    LET balances == computeBalances(accStore, txStore, debtStore, posStore, st, now)
    IN  /\ kpiActual' = balances.actualCash
        /\ alerts' = renderAlerts(goalStore, balances, computeMonthlyPnl(txStore))

\* The options of a <select> over the stored accounts, and its value: the
\* chosen option, or "" (here 0) when the select has no option.
AccountOptions == IF DOMAIN accounts = {} THEN {0} ELSE DOMAIN accounts

\* openAccountModal(id) -> Kaydet.
SaveAccount(id, type, startText) ==
    /\ id \in AccountIds
    /\ accounts' = idbPut(accounts,
           [id |-> id, type |-> type, startingBalance |-> parseAmount(startText)])
    /\ Render(accounts', transactions, debts, positions, goals, state)
    /\ UNCHANGED <<transactions, debts, positions, instruments, trades, state, now, tz, ui, goals, categories, snapshots, meta>>

\* delAcc -> confirmDelete.
DeleteAccount(id) ==
    /\ id \in DOMAIN accounts
    /\ accounts' = idbDelete(accounts, id)
    /\ Render(accounts', transactions, debts, positions, goals, state)
    /\ UNCHANGED <<transactions, debts, positions, instruments, trades, state, now, tz, ui, goals, categories, snapshots, meta>>

\* openTxModal(id) -> Kaydet.  dateValue is the value of the date input, Null
\* when it is blank.  The record is rebuilt: transferGroupId is not carried.
SaveTx(id, dateValue, accountId, amtText) ==
    /\ id \in TxIds
    /\ accountId \in AccountOptions
    /\ LET v == [ id |-> id,
                  type |-> IF id \in DOMAIN transactions
                           THEN transactions[id].type ELSE "normal",
                  date |-> IF dateValue # Null THEN dateValue ELSE toISODate(now),
                  accountId |-> accountId,
                  amount |-> parseAmount(amtText),
                  transferGroupId |-> 0 ]
       IN  transactions' = idbPut(transactions, v)
    /\ Render(accounts, transactions', debts, positions, goals, state)
    /\ UNCHANGED <<accounts, debts, positions, instruments, trades, state, now, tz, ui, goals, categories, snapshots, meta>>

\* delTx -> confirmDelete.
DeleteTx(id) ==
    /\ id \in DOMAIN transactions
    /\ transactions' = idbDelete(transactions, id)
    /\ Render(accounts, transactions', debts, positions, goals, state)
    /\ UNCHANGED <<accounts, debts, positions, instruments, trades, state, now, tz, ui, goals, categories, snapshots, meta>>

\* The transferGroupIds in use; uid() returns another one.  Group ids are only
\* ever compared for equality, so the model takes the least unused one.
GroupIdsInUse == {transactions[k].transferGroupId : k \in DOMAIN transactions}

FreshGroupId == CHOOSE g \in 1..(MaxTxs + 1) :
                    g \notin GroupIdsInUse /\ \A h \in 1..(g - 1) : h \in GroupIdsInUse

\* openTransferModal -> Kaydet.
SaveTransfer(fromId, toId, dateValue, amtText, from, to) ==
    /\ fromId \in FreshIds(transactions, TxIds)
    /\ toId \in FreshIds(transactions, TxIds) \ {fromId}
    /\ from \in AccountOptions
    /\ to \in AccountOptions
    /\ LET date == IF dateValue # Null THEN dateValue ELSE toISODate(now)
           amt  == Abs(parseAmount(amtText))
           groupId == FreshGroupId
           fromTx == [ id |-> fromId, type |-> "transfer", date |-> date,
                       accountId |-> from, amount |-> -amt,
                       transferGroupId |-> groupId ]
           toTx   == [ id |-> toId, type |-> "transfer", date |-> date,
                       accountId |-> to, amount |-> amt,
                       transferGroupId |-> groupId ]
       IN  IF amt = 0 \/ from = to
           THEN UNCHANGED <<transactions, kpiActual, alerts>>
           ELSE /\ transactions' = idbPut(idbPut(transactions, fromTx), toTx)
                /\ Render(accounts, transactions', debts, positions, goals, state)
    /\ UNCHANGED <<accounts, debts, positions, instruments, trades, state, now, tz, ui, goals, categories, snapshots, meta>>

\* The largest difference, in hundredths, that an adjustment books here.
MaxAdjustment == 20000

\* Mutant: the target itself is booked.
AdjustmentDiff_Target(target, current) == target

\* diff = target - current
AdjustmentDiff(target, current) == target - current

\* openAdjustmentModal(accountId) -> Uygula.  The balance is the one computed
\* when the modal opened; the modal covers the page until it is closed.
ApplyAdjustment(id, accountId, targetText) ==
    /\ id \in FreshIds(transactions, TxIds)
    /\ accountId \in DOMAIN accounts
    /\ LET current == AccountBalance(accounts[accountId], idbGetAll(transactions))
           diff    == AdjustmentDiff(parseAmount(targetText), current)
       IN  /\ diff \in (-MaxAdjustment)..MaxAdjustment
           /\ IF diff = 0
              THEN UNCHANGED <<transactions, kpiActual, alerts>>
              ELSE /\ transactions' = idbPut(transactions,
                          [ id |-> id, type |-> "adjustment", date |-> toISODate(now),
                            accountId |-> accountId, amount |-> diff,
                            transferGroupId |-> 0 ])
                   /\ Render(accounts, transactions', debts, positions, goals, state)
    /\ UNCHANGED <<accounts, debts, positions, instruments, trades, state, now, tz, ui, goals, categories, snapshots, meta>>

\* openInstrumentModal(id) -> Kaydet.  Of an instrument only its presence is
\* read by what follows.
SaveInstrument(id) ==
    /\ id \in InstrumentIds
    /\ instruments' = idbPut(instruments, [id |-> id])
    /\ Render(accounts, transactions, debts, positions, goals, state)
    /\ UNCHANGED <<accounts, transactions, debts, positions, trades, state, now, tz, ui, goals, categories, snapshots, meta>>

\* openPositionModal(id) -> Kaydet; the modal opens only when an instrument
\* is stored.
SavePosition(id, qtyText, costText, valueText) ==
    /\ id \in PositionIds
    /\ DOMAIN instruments # {}
    /\ positions' = idbPut(positions,
           [ id |-> id, qty |-> parseAmount(qtyText), avgCost |-> parseAmount(costText),
             currentValue |-> parseAmount(valueText) ])
    /\ Render(accounts, transactions, debts, positions', goals, state)
    /\ UNCHANGED <<accounts, transactions, debts, instruments, trades, state, now, tz, ui, goals, categories, snapshots, meta>>

\* delPos -> confirmDelete.
DeletePosition(id) ==
    /\ id \in DOMAIN positions
    /\ positions' = idbDelete(positions, id)
    /\ Render(accounts, transactions, debts, positions', goals, state)
    /\ UNCHANGED <<accounts, transactions, debts, instruments, trades, state, now, tz, ui, goals, categories, snapshots, meta>>

confidencePresetToValue(p) ==
    IF p = "Kesin" THEN 95
    ELSE IF p = "Muhtemel" THEN 70
    ELSE IF p = "Supheli" THEN 40
    ELSE IF p = "Umutsuz" THEN 10
    ELSE 60

\* clamp(parseInt(field || preset, 10) || preset, 0, 100): the preset value
\* stands in when the field is blank, is not a number, or parses to 0.
DebtConfidence(confText, preset) ==
    LET pv == confidencePresetToValue(preset)
        n  == IF confText = <<>> THEN <<pv>> ELSE parseInt(confText)
    IN  clamp(IF n = Null \/ n = <<0>> THEN pv ELSE n[1], 0, 100)

\* openDebtModal(id) -> Kaydet.  dueValue is the value of the date input, Null
\* when it is blank.
SaveDebt(id, direction, status, amtText, dueValue, confText, preset) ==
    /\ id \in DebtIds
    /\ debts' = idbPut(debts,
           [ id |-> id, direction |-> direction, status |-> status,
             amount |-> Abs(parseAmount(amtText)),
             dueDate |-> dueValue,
             confidence |-> <<DebtConfidence(confText, preset)>> ])
    /\ Render(accounts, transactions, debts', positions, goals, state)
    /\ UNCHANGED <<accounts, transactions, positions, instruments, trades, state, now, tz, ui, goals, categories, snapshots, meta>>

\* delDebt -> confirmDelete.
DeleteDebt(id) ==
    /\ id \in DOMAIN debts
    /\ debts' = idbDelete(debts, id)
    /\ Render(accounts, transactions, debts', positions, goals, state)
    /\ UNCHANGED <<accounts, transactions, positions, instruments, trades, state, now, tz, ui, goals, categories, snapshots, meta>>

markDebtClosed(id) ==
    /\ id \in DOMAIN debts
    /\ debts' = idbPut(debts, [debts[id] EXCEPT !.status = "closed"])
    /\ Render(accounts, transactions, debts', positions, goals, state)
    /\ UNCHANGED <<accounts, transactions, positions, instruments, trades, state, now, tz, ui, goals, categories, snapshots, meta>>

\* openTradeModal(id) -> Kaydet.
SaveTrade(id, dateValue, result, rText) ==
    /\ id \in TradeIds
    /\ trades' = idbPut(trades,
           [ id |-> id,
             date |-> IF dateValue # Null THEN dateValue ELSE toISODate(now),
             result |-> result,
             rMultiple |-> parseAmount(rText) ])
    /\ Render(accounts, transactions, debts, positions, goals, state)
    /\ UNCHANGED <<accounts, transactions, debts, positions, instruments, state, now, tz, ui, goals, categories, snapshots, meta>>

\* delTrade -> confirmDelete.
DeleteTrade(id) ==
    /\ id \in DOMAIN trades
    /\ trades' = idbDelete(trades, id)
    /\ Render(accounts, transactions, debts, positions, goals, state)
    /\ UNCHANGED <<accounts, transactions, debts, positions, instruments, state, now, tz, ui, goals, categories, snapshots, meta>>

\* The dashboard's #horizonDays and #confMin selects.
SetHorizonDays(d) ==
    /\ state' = [state EXCEPT !.horizonDays = d]
    /\ Render(accounts, transactions, debts, positions, goals, state')
    /\ UNCHANGED <<accounts, transactions, debts, positions, instruments, trades, now, tz, ui, goals, categories, snapshots, meta>>

SetConfMin(v) ==
    /\ state' = [state EXCEPT !.includeConfidenceMin = v]
    /\ Render(accounts, transactions, debts, positions, goals, state')
    /\ UNCHANGED <<accounts, transactions, debts, positions, instruments, trades, now, tz, ui, goals, categories, snapshots, meta>>

\* openGoalModal(id) -> Kaydet.
SaveGoal(id, type, targetText, endValue) ==
    /\ id \in GoalIds
    /\ goals' = idbPut(goals,
           [id |-> id, type |-> type,
            targetValue |-> <<Abs(parseAmount(targetText))>>,
            endDate |-> endValue, status |-> "active"])
    /\ Render(accounts, transactions, debts, positions, goals', state)
    /\ UNCHANGED <<accounts, transactions, debts, positions, instruments, trades, state,
                   now, tz, ui, categories, snapshots, meta>>

\* delGoal -> confirm.
DeleteGoal(id) ==
    /\ id \in DOMAIN goals
    /\ goals' = idbDelete(goals, id)
    /\ Render(accounts, transactions, debts, positions, goals', state)
    /\ UNCHANGED <<accounts, transactions, debts, positions, instruments, trades, state,
                   now, tz, ui, categories, snapshots, meta>>

\* importAll(data) -> render.  data maps a store name to its array; a store
\* the dump does not name is cleared and left empty (data[s] || []).
RECURSIVE PutAll(_, _)
PutAll(store, arr) ==
    IF arr = <<>> THEN store ELSE PutAll(idbPut(store, Head(arr)), Tail(arr))

DumpArray(data, s) == IF s \in DOMAIN data THEN data[s] ELSE <<>>

\* The store "meta" has key path "key".
idbPutMeta(store, value) ==
    [k \in DOMAIN store \cup {value.key} |-> IF k = value.key THEN value ELSE store[k]]

RECURSIVE PutAllMeta(_, _)
PutAllMeta(store, arr) ==
    IF arr = <<>> THEN store ELSE PutAllMeta(idbPutMeta(store, Head(arr)), Tail(arr))

\* Mutant: the collection is not cleared before the records are put.
ImportStore_Merge(store, arr) == PutAll(store, arr)

\* One pass of the loop of importAll: idbClear(s), then idbPut of each item.
ImportStore(store, arr) == PutAll(EmptyStore, arr)

\* Mutant: the store "meta" is keyed like the others would be, by its first
\* record only.
ImportMeta_FirstOnly(store, arr) ==
    IF arr = <<>> THEN EmptyStore ELSE idbPutMeta(EmptyStore, Head(arr))

ImportMeta(store, arr) == PutAllMeta(EmptyStore, arr)

\* The stores in the order importAll goes through them.
StoreOrder ==
    <<"accounts", "transactions", "categories", "instruments", "positions",
      "debts", "trades", "goals", "snapshots", "meta">>

\* The key path of a store (openDB).
KeyPath(s) == IF s = "meta" THEN "key" ELSE "id"

\* The index of the first record of arr that store.put refuses (DataError:
\* the record has no key), 0 when it takes every record.
FirstRefused(arr, s) ==
    LET bad == {i \in 1..Len(arr) : KeyPath(s) \notin DOMAIN arr[i]}
    IN  IF bad = {} THEN 0 ELSE CHOOSE i \in bad : \A j \in bad : i <= j

\* The position in StoreOrder of the first store with a refused record, 0
\* when the whole dump is taken.
FailingStore(data) ==
    LET bad == {n \in 1..Len(StoreOrder) :
                   FirstRefused(DumpArray(data, StoreOrder[n]), StoreOrder[n]) # 0}
    IN  IF bad = {} THEN 0 ELSE CHOOSE n \in bad : \A m \in bad : n <= m

\* The position of a store in StoreOrder.
StorePosition(s) == CHOOSE n \in 1..Len(StoreOrder) : StoreOrder[n] = s

\* The store s after an importAll that stops at the first refused record: the
\* stores before the failing one are replaced, the failing one is cleared and
\* holds the records put before the refused one, the ones after it are not
\* reached.
ImportUpTo(s, store, data) ==
    LET f == FailingStore(data)
        arr == DumpArray(data, s)
    IN  IF StorePosition(s) < f
        THEN (IF s = "meta" THEN ImportMeta(store, arr) ELSE ImportStore(store, arr))
        ELSE IF StorePosition(s) = f
        THEN (IF s = "meta"
              THEN PutAllMeta(EmptyStore, SubSeq(arr, 1, FirstRefused(arr, s) - 1))
              ELSE PutAll(EmptyStore, SubSeq(arr, 1, FirstRefused(arr, s) - 1)))
        ELSE store

\* The import of a dump with a record that a store refuses: idbPut rejects,
\* importAll rejects with it, and the handler of the import button ends there,
\* before closeModal and render.
ImportAllRejected(data) ==
    /\ FailingStore(data) # 0
    /\ accounts' = ImportUpTo("accounts", accounts, data)
    /\ transactions' = ImportUpTo("transactions", transactions, data)
    /\ categories' = ImportUpTo("categories", categories, data)
    /\ instruments' = ImportUpTo("instruments", instruments, data)
    /\ positions' = ImportUpTo("positions", positions, data)
    /\ debts' = ImportUpTo("debts", debts, data)
    /\ trades' = ImportUpTo("trades", trades, data)
    /\ goals' = ImportUpTo("goals", goals, data)
    /\ snapshots' = ImportUpTo("snapshots", snapshots, data)
    /\ meta' = ImportUpTo("meta", meta, data)
    /\ UNCHANGED <<state, now, tz, ui, kpiActual, alerts>>

ImportAll(data) ==
    /\ FailingStore(data) = 0
    /\ accounts' = ImportStore(accounts, DumpArray(data, "accounts"))
    /\ transactions' = ImportStore(transactions, DumpArray(data, "transactions"))
    /\ categories' = ImportStore(categories, DumpArray(data, "categories"))
    /\ instruments' = ImportStore(instruments, DumpArray(data, "instruments"))
    /\ positions' = ImportStore(positions, DumpArray(data, "positions"))
    /\ debts' = ImportStore(debts, DumpArray(data, "debts"))
    /\ trades' = ImportStore(trades, DumpArray(data, "trades"))
    /\ goals' = ImportStore(goals, DumpArray(data, "goals"))
    /\ snapshots' = ImportStore(snapshots, DumpArray(data, "snapshots"))
    /\ meta' = ImportMeta(meta, DumpArray(data, "meta"))
    /\ Render(accounts', transactions', debts', positions', goals', state)
    /\ UNCHANGED <<state, now, tz, ui>>

\* The keys of "meta" in ascending order.
MetaKeyOrder == <<"baseCurrency", "seeded">>

idbGetAllMeta(store) ==
    LET present == SelectSeq(MetaKeyOrder, LAMBDA k : k \in DOMAIN store)
    IN  [i \in 1..Len(present) |-> store[present[i]]]

\* Mutant: the dump leaves out the positions.
ExportedStores_NoPositions ==
    {"accounts", "transactions", "categories", "instruments", "debts",
     "trades", "goals", "snapshots", "meta"}

\* const stores = [...] of exportAll.
ExportedStores ==
    {"accounts", "transactions", "categories", "instruments", "positions", "debts",
     "trades", "goals", "snapshots", "meta"}

\* exportAll(), then JSON.stringify and JSON.parse of the dump: the arrays of
\* the stored records, which hold numbers, strings, booleans and null only.
exportAll ==
    [s \in ExportedStores |->
        CASE s = "accounts" -> idbGetAll(accounts)
          [] s = "transactions" -> idbGetAll(transactions)
          [] s = "categories" -> idbGetAll(categories)
          [] s = "instruments" -> idbGetAll(instruments)
          [] s = "positions" -> idbGetAll(positions)
          [] s = "debts" -> idbGetAll(debts)
          [] s = "trades" -> idbGetAll(trades)
          [] s = "goals" -> idbGetAll(goals)
          [] s = "snapshots" -> idbGetAll(snapshots)
          [] OTHER -> idbGetAllMeta(meta)]

\* Export, then import of the file just written.
ExportThenImport == ImportAll(exportAll)

RECURSIVE TrimEnd(_)
TrimEnd(t) == IF t # <<>> /\ t[Len(t)] = " " THEN TrimEnd(SubSeq(t, 1, Len(t) - 1)) ELSE t

\* String.prototype.trim on the blanks.
Trim(t) == TrimEnd(TrimStart(t))

\* hashString of the text `${date}|${amt}|${desc}|${accId}|${catId}|${tag}`.
\* SHA-256 is taken free of collisions, and the joined text determines its
\* parts (ids and tags hold no "|"), so the digest is named by the parts.
hashString(date, amt, desc, accId, catId, tag) == <<date, amt, desc, accId, catId, tag>>

\* t.hash of a stored transaction; undefined when the record has no hash.
HashOf(t) == IF "hash" \in DOMAIN t THEN t.hash ELSE Null

\* new Set(stored.map(t => t.hash).filter(Boolean))
ExistingHashes(store) == {HashOf(store[k]) : k \in DOMAIN store} \ {Null}

\* Save of the transaction form, with every field it writes (transferGroupId
\* 0: none is written).  The hash is computed anew, with the tag "tx".
SaveTxForm(id, dateValue, accountId, categoryId, descText, amtText) ==
    /\ accountId \in AccountOptions
    /\ LET date == IF dateValue # Null THEN dateValue ELSE toISODate(now)
           amount == parseAmount(amtText)
           desc == Trim(descText)
           v == [ id |-> id,
                  type |-> IF id \in DOMAIN transactions
                           THEN transactions[id].type ELSE "normal",
                  date |-> date,
                  accountId |-> accountId,
                  categoryId |-> categoryId,
                  description |-> desc,
                  amount |-> amount,
                  hash |-> hashString(date, amount, desc, accountId, categoryId, "tx"),
                  transferGroupId |-> 0 ]
       IN  transactions' = idbPut(transactions, v)
    /\ Render(accounts, transactions', debts, positions, goals, state)
    /\ UNCHANGED <<accounts, debts, positions, instruments, trades, state, now, tz, ui, goals, categories, snapshots, meta>>

\* String(n) for a natural number.
RECURSIVE NatText(_)
NatText(n) == IF n < 10 THEN <<Digits[n + 1]>> ELSE NatText(n \div 10) \o <<Digits[(n % 10) + 1]>>

\* String(n).padStart(2, "0")
PadStart2(n) == IF Len(NatText(n)) < 2 THEN <<"0">> \o NatText(n) ELSE NatText(n)

\* The text `${yyyy}-${mm}-${dd}` of toISODate and of parseDateLoose, which a
\* date <<y, m, d>> of the model stands for: the year is not padded.
DateString(d) == NatText(d[1]) \o <<"-">> \o PadStart2(d[2]) \o <<"-">> \o PadStart2(d[3])

\* parseDateLoose of a date cell.  A cell is blank or unreadable ("none"), an
\* ISO date ("iso": new Date(text) is midnight UTC of it, and toISODate gives
\* the local date of that instant), or day, month and year of one or two, one
\* or two and two to four digits, with a day above 12 ("dmy": new Date(text)
\* is invalid and the pattern gives the date; a year below 100 is of the
\* century 2000).
parseDateLoose(cell) ==
    IF cell.form = "none" THEN Null
    ELSE IF cell.form = "iso" THEN toISODate(DateParseUTC(cell.d))
    ELSE <<IF cell.d[1] < 100 THEN cell.d[1] + 2000 ELSE cell.d[1], cell.d[2], cell.d[3]>>

\* The transaction of a row, without its id; Null for a row counted as bad.
CsvCandidate(row, accId, catId) ==
    LET date == parseDateLoose(row.date)
        desc == Trim(row.desc)
        amt == parseAmount(row.amt)
    IN  IF date = Null \/ (desc = <<>> /\ amt = 0) THEN Null
        ELSE [ type |-> "normal", date |-> date, accountId |-> accId,
               categoryId |-> catId, description |-> desc, amount |-> amt,
               hash |-> hashString(date, amt, desc, accId, catId, "csv"),
               transferGroupId |-> 0 ]

\* uid() for a transaction of the import: an id that no stored record has.
CsvUid(store) ==
    CHOOSE k \in CsvTxIds \ DOMAIN store : \A j \in CsvTxIds \ DOMAIN store : k <= j

\* Mutant: the hash of an inserted row is not added to the set.
CsvAddHash_Forget(hashes, h) == hashes

\* existingHashes.add(hash)
CsvAddHash(hashes, h) == hashes \cup {h}

\* The loop over the rows of #btnDoImport.
RECURSIVE CsvLoop(_, _, _, _, _)
CsvLoop(store, hashes, rows, accId, catId) ==
    IF rows = <<>> THEN store
    ELSE LET c == CsvCandidate(Head(rows), accId, catId)
         IN  IF c = Null THEN CsvLoop(store, hashes, Tail(rows), accId, catId)
             ELSE IF c.hash \in hashes THEN CsvLoop(store, hashes, Tail(rows), accId, catId)
             ELSE CsvLoop(idbPut(store, [id |-> CsvUid(store)] @@ c),
                          CsvAddHash(hashes, c.hash), Tail(rows), accId, catId)

\* The store after the import of the rows with that mapping.
CsvImported(store, rows, accId, catId) ==
    CsvLoop(store, ExistingHashes(store), rows, accId, catId)

\* The rows of a file that are neither bad nor stored already.
CsvNewRows(store, rows, accId, catId) ==
    {i \in 1..Len(rows) :
        /\ CsvCandidate(rows[i], accId, catId) # Null
        /\ CsvCandidate(rows[i], accId, catId).hash \notin ExistingHashes(store)}

\* #btnDoImport of the CSV import: the rows after the header, the account and
\* the category of the mapping.  The ids of the model suffice for the rows.
ImportCsv(rows, accId, catId) ==
    /\ accId \in DOMAIN accounts
    /\ catId \in DOMAIN categories
    /\ Cardinality(CsvNewRows(transactions, rows, accId, catId))
         <= Cardinality(CsvTxIds \ DOMAIN transactions)
    /\ transactions' = CsvImported(transactions, rows, accId, catId)
    /\ Render(accounts, transactions', debts, positions, goals, state)
    /\ UNCHANGED <<accounts, debts, positions, instruments, trades, state, now, tz, ui, goals, categories, snapshots, meta>>

\* The rows of viewTransactions: accMap.get(t.accountId), and the cell
\* acc?.name || "" (the type stands for the name, which is not modelled); the
\* order of the rows is left out.
viewTransactions(accStore, txStore) ==
    LET txs == idbGetAll(txStore)
    IN  [i \in 1..Len(txs) |->
            [ tx |-> txs[i].id,
              account |-> IF txs[i].accountId \in DOMAIN accStore
                          THEN accStore[txs[i].accountId].type ELSE "" ]]

\* Time passes: no handler runs, nothing is rendered.
Tick(h) ==
    /\ now + h <= MaxClock
    /\ now' = now + h
    /\ UNCHANGED <<accounts, transactions, debts, positions, instruments, trades, state, tz, ui,
                 kpiActual, goals, categories, snapshots, meta, alerts>>

----------------------------------------------------------------------------
(* The first start: init() opens the store, seedIfNeeded() writes the two  *)
(* default accounts, render() shows the dashboard.                         *)

DefaultState == [horizonDays |-> 30, includeConfidenceMin |-> 60]

SeedAccounts(bankId, cashId) ==
    idbPut(idbPut(EmptyStore,
        [id |-> bankId, type |-> "Banka", startingBalance |-> 0]),
        [id |-> cashId, type |-> "Nakit", startingBalance |-> 0])

DefaultCats ==
    <<"Maas", "Kira", "Market", "Ulasim", "Fatura", "Eglence", "Yemek", "Saglik",
      "Egitim", "Diger">>

SeedCategories == [i \in 1..Len(DefaultCats) |-> [id |-> i, name |-> DefaultCats[i]]]

SeedMeta == idbPutMeta(EmptyStore, [key |-> "seeded", value |-> TRUE])

InitStore(bankId, cashId) ==
    /\ accounts = SeedAccounts(bankId, cashId)
    /\ categories = SeedCategories
    /\ meta = SeedMeta
    /\ goals = EmptyStore
    /\ snapshots = EmptyStore
    /\ alerts = <<>>
    /\ transactions = EmptyStore
    /\ debts = EmptyStore
    /\ positions = EmptyStore
    /\ instruments = EmptyStore
    /\ trades = EmptyStore
    /\ state = DefaultState
    /\ kpiActual = 0
    /\ tab = "dashboard"
    /\ view = "dashboard"
    /\ passes = <<>>
    /\ job = Null
    /\ rejected = Null

\* The ids that uid() hands out to the records of a seeding.  uid() never
\* returns an id in use; the model takes the least unused ones.
UidSpace == 1..(Len(DefaultCats) + MaxAccounts)

RECURSIVE FreshUids(_, _)
FreshUids(used, n) ==
    IF n = 0 THEN <<>>
    ELSE LET k == CHOOSE i \in UidSpace \ used : \A j \in UidSpace \ used : i <= j
         IN  <<k>> \o FreshUids(used \cup {k}, n - 1)

\* if (seeded?.value) return;
Seeded(m) == "seeded" \in DOMAIN m /\ m["seeded"].value = TRUE

\* The categories after the puts of defaultCats.
SeedCategoriesInto(store) ==
    LET ids == FreshUids(DOMAIN store, Len(DefaultCats))
    IN  PutAll(store, [i \in 1..Len(DefaultCats) |-> [id |-> ids[i], name |-> DefaultCats[i]]])

\* The accounts after the puts of acc1 and acc2.
SeedAccountsInto(store) ==
    LET ids == FreshUids(DOMAIN store, 2)
    IN  PutAll(store, << [id |-> ids[1], type |-> "Banka", startingBalance |-> 0],
                         [id |-> ids[2], type |-> "Nakit", startingBalance |-> 0] >>)

\* seedIfNeeded(), on the three stores it writes.
seedIfNeeded(cats, accs, m) ==
    IF Seeded(m) THEN [categories |-> cats, accounts |-> accs, meta |-> m]
    ELSE [ categories |-> SeedCategoriesInto(cats),
           accounts |-> SeedAccountsInto(accs),
           meta |-> idbPutMeta(m, [key |-> "seeded", value |-> TRUE]) ]

\* init(): the page is loaded again.  The state object is built anew.
AppStart ==
    LET r == seedIfNeeded(categories, accounts, meta)
    IN  /\ categories' = r.categories
        /\ accounts' = r.accounts
        /\ meta' = r.meta
        /\ state' = DefaultState
        /\ Render(accounts', transactions, debts, positions, goals, state')
        /\ tab' = "dashboard"
        /\ view' = "dashboard"
        /\ passes' = <<>>
        /\ job' = Null
        /\ rejected' = Null
        /\ UNCHANGED <<transactions, debts, positions, instruments, trades, now, tz, goals, snapshots>>

\* Settings -> reset: resetAll(), closeModal(), render().
ResetAll ==
    LET r == seedIfNeeded(EmptyStore, EmptyStore, EmptyStore)
    IN  /\ categories' = r.categories
        /\ accounts' = r.accounts
        /\ meta' = r.meta
        /\ transactions' = EmptyStore
        /\ instruments' = EmptyStore
        /\ positions' = EmptyStore
        /\ debts' = EmptyStore
        /\ trades' = EmptyStore
        /\ goals' = EmptyStore
        /\ snapshots' = EmptyStore
        /\ Render(accounts', transactions', debts', positions', goals', state)
        /\ UNCHANGED <<state, now, tz, ui>>

----------------------------------------------------------------------------
(* render() and the handlers, await by await.  A handler runs until its    *)
(* next await; the page takes other events while the request is pending.   *)
(* A request on the store sees the writes requested before it and none     *)
(* requested after it (transactions on a store are served in the order of  *)
(* their creation), so a read is modelled at the moment it is requested,   *)
(* a write likewise; the order in which pending reads of different passes  *)
(* are answered is open.                                                   *)

\* The calls of render() that may be in progress together.
MaxPasses == 2

Tabs == {"dashboard", "transactions"}

\* The four reads of computeBalances.
BalanceReads == {"accounts", "transactions", "debts", "positions"}

\* render() up to its first await: computeBalances() requests its four reads.
NewPass ==
    [ pc |-> "balances",
      reads |-> [accounts |-> accounts, transactions |-> transactions,
                 debts |-> debts, positions |-> positions],
      balances |-> Null, goals |-> Null, txs |-> Null, tab |-> Null ]

RemoveAt(seq, i) == SubSeq(seq, 1, i - 1) \o SubSeq(seq, i + 1, Len(seq))

\* Mutant: the reads are settled one by one, and a failed read counts as an
\* empty collection.
computeBalancesAwaited_Settled(reads, failed, first, st, t) ==
    LET got == [r \in BalanceReads |-> IF r \in failed THEN EmptyStore ELSE reads[r]]
    IN  [ ok |-> TRUE,
          value |-> computeBalances(got.accounts, got.transactions, got.debts,
                                    got.positions, st, t) ]

\* await computeBalances(): Promise.all over the four reads.  failed are the
\* reads whose request ends in onerror, first the one of them that does so
\* first: Promise.all rejects with its error (idbGetAll: reject(req.error)).
computeBalancesAwaited(reads, failed, first, st, t) ==
    IF failed = {}
    THEN [ ok |-> TRUE,
           value |-> computeBalances(reads.accounts, reads.transactions, reads.debts,
                                     reads.positions, st, t) ]
    ELSE [ ok |-> FALSE, error |-> <<"error", first>> ]

\* A click on a button of the navigation: setTab(t).  render() is called and
\* not awaited.
SetTab(t) ==
    /\ Len(passes) < MaxPasses
    /\ tab' = t
    /\ passes' = Append(passes, NewPass)
    /\ UNCHANGED <<accounts, transactions, debts, positions, instruments, trades, state,
                   now, tz, kpiActual, goals, categories, snapshots, meta, alerts,
                   view, job, rejected>>

\* Pass i: the reads of computeBalances are answered.  When all succeed,
\* #kpiActual is written and renderAlerts requests the goals; when one fails,
\* render() is rejected at its first await.
PassBalances(i, failed, first) ==
    /\ i \in 1..Len(passes)
    /\ passes[i].pc = "balances"
    /\ failed # {} => first \in failed
    /\ LET r == computeBalancesAwaited(passes[i].reads, failed, first, state, now)
       IN  IF r.ok
           THEN /\ kpiActual' = r.value.actualCash
                /\ passes' = [passes EXCEPT ![i] =
                       [ pc |-> "goals", reads |-> Null, balances |-> r.value,
                         goals |-> goals, txs |-> Null, tab |-> Null ]]
                /\ UNCHANGED rejected
           ELSE /\ rejected' = r.error
                /\ passes' = RemoveAt(passes, i)
                /\ UNCHANGED kpiActual
    /\ UNCHANGED <<accounts, transactions, debts, positions, instruments, trades, state,
                   now, tz, goals, categories, snapshots, meta, alerts, tab, view, job>>

\* Pass i: the goals are answered; computeMonthlyPnl requests the
\* transactions.
PassGoals(i) ==
    /\ i \in 1..Len(passes)
    /\ passes[i].pc = "goals"
    /\ passes' = [passes EXCEPT ![i].pc = "monthly", ![i].txs = transactions]
    /\ UNCHANGED <<accounts, transactions, debts, positions, instruments, trades, state,
                   now, tz, kpiActual, goals, categories, snapshots, meta, alerts,
                   tab, view, job, rejected>>

\* Pass i: the transactions are answered; #alerts is written, and
\* switch(state.tab) calls the view of the tab, which requests its reads.
PassMonthly(i) ==
    /\ i \in 1..Len(passes)
    /\ passes[i].pc = "monthly"
    /\ alerts' = renderAlerts(passes[i].goals, passes[i].balances,
                              computeMonthlyPnl(passes[i].txs))
    /\ passes' = [passes EXCEPT ![i].pc = "view", ![i].goals = Null, ![i].txs = Null,
                                ![i].balances = Null, ![i].tab = tab]
    /\ UNCHANGED <<accounts, transactions, debts, positions, instruments, trades, state,
                   now, tz, kpiActual, goals, categories, snapshots, meta,
                   tab, view, job, rejected>>

\* Pass i: the reads of the view are answered; view.innerHTML is written and
\* render() returns.
PassView(i) ==
    /\ i \in 1..Len(passes)
    /\ passes[i].pc = "view"
    /\ view' = passes[i].tab
    /\ passes' = RemoveAt(passes, i)
    /\ UNCHANGED <<accounts, transactions, debts, positions, instruments, trades, state,
                   now, tz, kpiActual, goals, categories, snapshots, meta, alerts,
                   tab, job, rejected>>

\* openTransferModal -> Kaydet, up to the first await: idbPut(fromTx) is
\* requested.
TransferSave(fromId, toId, amtText, from, to) ==
    /\ job = Null
    /\ fromId \in FreshIds(transactions, TxIds)
    /\ toId \in FreshIds(transactions, TxIds) \ {fromId}
    /\ from \in AccountOptions
    /\ to \in AccountOptions
    /\ LET date == toISODate(now)
           amt  == Abs(parseAmount(amtText))
           groupId == FreshGroupId
           fromTx == [ id |-> fromId, type |-> "transfer", date |-> date,
                       accountId |-> from, amount |-> -amt,
                       transferGroupId |-> groupId ]
           toTx   == [ id |-> toId, type |-> "transfer", date |-> date,
                       accountId |-> to, amount |-> amt,
                       transferGroupId |-> groupId ]
       IN  /\ amt # 0 /\ from # to
           /\ transactions' = idbPut(transactions, fromTx)
           /\ job' = [pc |-> "toTx", toTx |-> toTx]
    /\ UNCHANGED <<accounts, debts, positions, instruments, trades, state, now, tz,
                   kpiActual, goals, categories, snapshots, meta, alerts,
                   tab, view, passes, rejected>>

\* The first put is done: idbPut(toTx) is requested.
TransferResume ==
    /\ job # Null
    /\ job.pc = "toTx"
    /\ transactions' = idbPut(transactions, job.toTx)
    /\ job' = [pc |-> "render", toTx |-> Null]
    /\ UNCHANGED <<accounts, debts, positions, instruments, trades, state, now, tz,
                   kpiActual, goals, categories, snapshots, meta, alerts,
                   tab, view, passes, rejected>>

\* delTx -> confirmDelete, up to the first await: idbDelete is requested.
DeleteTxClick(id) ==
    /\ job = Null
    /\ id \in DOMAIN transactions
    /\ transactions' = idbDelete(transactions, id)
    /\ job' = [pc |-> "render", toTx |-> Null]
    /\ UNCHANGED <<accounts, debts, positions, instruments, trades, state, now, tz,
                   kpiActual, goals, categories, snapshots, meta, alerts,
                   tab, view, passes, rejected>>

\* The last write of the handler is done: closeModal(), then render() starts.
JobRender ==
    /\ job # Null
    /\ job.pc = "render"
    /\ Len(passes) < MaxPasses
    /\ job' = Null
    /\ passes' = Append(passes, NewPass)
    /\ UNCHANGED <<accounts, transactions, debts, positions, instruments, trades, state,
                   now, tz, kpiActual, goals, categories, snapshots, meta, alerts,
                   tab, view, rejected>>

----------------------------------------------------------------------------
(* Spec: the ledger.  Accounts and transactions are created, edited and    *)
(* deleted, transfers and adjustments are saved, a backup is imported.     *)

\* 2024-02-29T10:00Z
LedgerClock == DateParseUTC(<<2024, 2, 29>>) + 10

T100 == <<"1", "0", "0">>
T80 == <<"8", "0">>
TMinus30 == <<"-", "3", "0">>
TPlus10 == <<"+", "1", "0">>
TBlank == <<>>

LedgerAccountTypes == {"Banka", "Nakit"}
LedgerStartTexts == {T100}
LedgerTxTexts == {TMinus30, TPlus10}
TMinus100 == <<"-", "1", "0", "0">>
LedgerTransferTexts == {T100, TMinus100, TBlank}
LedgerTargetTexts == {T80}

\* A backup of two accounts, an adjustment of the first and a transaction of
\* the second; it names no other store.
DumpLedger ==
    [s \in {"accounts", "transactions"} |->
        IF s = "accounts"
        THEN << [id |-> 1, type |-> "Banka", startingBalance |-> 10000],
                [id |-> 2, type |-> "Broker", startingBalance |-> 0] >>
        ELSE << [id |-> 1, type |-> "adjustment", date |-> <<2024, 2, 10>>,
                 accountId |-> 1, amount |-> -2000, transferGroupId |-> 0],
                [id |-> 2, type |-> "normal", date |-> <<2024, 2, 10>>,
                 accountId |-> 2, amount |-> 500, transferGroupId |-> 0] >>]

LedgerDumps == {DumpLedger}

Init ==
    /\ \E b \in AccountIds : \E c \in AccountIds \ {b} : InitStore(b, c)
    /\ now = LedgerClock
    /\ tz = 0

Next ==
    \/ \E id \in AccountIds, ty \in LedgerAccountTypes, s \in LedgerStartTexts :
           SaveAccount(id, ty, s)
    \/ \E id \in AccountIds : DeleteAccount(id)
    \/ \E id \in TxIds, a \in AccountIds \cup {0}, s \in LedgerTxTexts :
           SaveTx(id, Null, a, s)
    \/ \E id \in TxIds : DeleteTx(id)
    \/ \E f \in TxIds, t \in TxIds, s \in LedgerTransferTexts,
          from \in AccountIds \cup {0}, to \in AccountIds \cup {0} :
           SaveTransfer(f, t, Null, s, from, to)
    \/ \E d \in LedgerDumps : ImportAll(d)

Spec == Init /\ [][Next]_vars

----------------------------------------------------------------------------
(* SpecPnl: transactions dated around the end of February 2024, the clock  *)
(* running over midnight, west and east of UTC.                            *)

\* 2024-02-29T22:00Z
PnlClock == DateParseUTC(<<2024, 2, 29>>) + 22
PnlStep == 4
PnlZones == {-3, 3}

PnlDates == { <<2024, 1, 31>>, <<2024, 2, 1>>, <<2024, 2, 29>>, <<2024, 3, 1>>, Null }
PnlTxTexts == {TMinus30, TPlus10}

InitPnl ==
    /\ InitStore(1, 2)
    /\ now = PnlClock
    /\ tz \in PnlZones

NextPnl ==
    \/ \E id \in TxIds, d \in PnlDates, s \in PnlTxTexts : SaveTx(id, d, 1, s)
    \/ \E id \in TxIds : DeleteTx(id)
    \/ \E f \in TxIds, t \in TxIds, d \in PnlDates : SaveTransfer(f, t, d, T100, 1, 2)
    \/ Tick(PnlStep)

SpecPnl == InitPnl /\ [][NextPnl]_vars

----------------------------------------------------------------------------
(* SpecDebts: receivables and payables are saved, closed and deleted, the  *)
(* horizon and the confidence threshold are changed, the clock runs over   *)
(* midnight UTC, and a backup of debts is imported.                        *)

DebtZones == {3}

TradeZones == {0, 3}

T200 == <<"2", "0", "0">>
T50 == <<"5", "0">>
T60 == <<"6", "0">>

DebtDirections == {"receivable", "payable"}
DebtStatuses == {"open"}
\* Blank, and the eighth day after 2024-02-29.
DebtDueValues == {Null, <<2024, 3, 8>>}
DebtConfTexts == {T50, T60}
DebtHorizons == {7, 30}
DebtConfMins == {30, 60}

\* Backups whose debts were not written by the debt form: one without a
\* confidence, one with a confidence above 100, two written off.
DumpDebts ==
    [s \in {"accounts", "debts"} |->
        IF s = "accounts"
        THEN << [id |-> 1, type |-> "Banka", startingBalance |-> 10000] >>
        ELSE << [id |-> 1, direction |-> "receivable", status |-> "open",
                 amount |-> 20000, dueDate |-> Null, confidence |-> Null],
                [id |-> 2, direction |-> "receivable", status |-> "open",
                 amount |-> 30000, dueDate |-> <<2024, 3, 8>>, confidence |-> <<150>>] >>]

DumpWrittenOff ==
    [s \in {"accounts", "debts"} |->
        IF s = "accounts"
        THEN << [id |-> 1, type |-> "Banka", startingBalance |-> 10000] >>
        ELSE << [id |-> 1, direction |-> "receivable", status |-> "writtenoff",
                 amount |-> 20000, dueDate |-> Null, confidence |-> <<95>>],
                [id |-> 2, direction |-> "payable", status |-> "writtenoff",
                 amount |-> 30000, dueDate |-> Null, confidence |-> <<95>>] >>]

DebtDumps == {DumpDebts}

InitDebts ==
    /\ InitStore(1, 2)
    /\ now = PnlClock
    /\ tz \in DebtZones

NextDebts ==
    \/ \E id \in DebtIds, dir \in DebtDirections, st \in DebtStatuses,
          due \in DebtDueValues, c \in DebtConfTexts :
           SaveDebt(id, dir, st, T200, due, c, "Muhtemel")
    \/ \E id \in DebtIds : DeleteDebt(id)
    \/ \E id \in DebtIds : markDebtClosed(id)
    \/ \E d \in DebtHorizons : SetHorizonDays(d)
    \/ \E v \in DebtConfMins : SetConfMin(v)
    \/ \E d \in DebtDumps : ImportAll(d)
    \/ Tick(PnlStep)

SpecDebts == InitDebts /\ [][NextDebts]_vars

----------------------------------------------------------------------------
(* SpecWorth: positions beside a ledger and debts of every status.         *)

T2500 == <<"2", "5", "0", "0">>
T2 == <<"2">>

WorthStatuses == {"open", "closed", "disputed"}
WorthValueTexts == {T2500, T100}

InitWorth ==
    /\ InitStore(1, 2)
    /\ now = PnlClock
    /\ tz = 0

NextWorth ==
    \/ \E id \in InstrumentIds : SaveInstrument(id)
    \/ \E id \in PositionIds, v \in WorthValueTexts : SavePosition(id, T2, T100, v)
    \/ \E id \in PositionIds : DeletePosition(id)
    \/ \E id \in DebtIds, dir \in DebtDirections, st \in WorthStatuses :
           SaveDebt(id, dir, st, T200, Null, T60, "Muhtemel")
    \/ \E id \in DebtIds : DeleteDebt(id)
    \/ \E id \in DebtIds : markDebtClosed(id)
    \/ \E s \in LedgerTxTexts : SaveTx(1, Null, 1, s)
    \/ ImportAll(DumpWrittenOff)

SpecWorth == InitWorth /\ [][NextWorth]_vars

----------------------------------------------------------------------------
(* SpecTrades: the trade journal around the end of February 2024.          *)

TMinus1 == <<"-", "1">>
T3 == <<"3">>

TradeDates == { <<2024, 2, 28>>, <<2024, 2, 29>>, <<2024, 3, 1>> }
TradeResults == {"win", "loss"}
TradeRTexts == {TMinus1, T3}

InitTrades ==
    /\ InitStore(1, 2)
    /\ now = PnlClock
    /\ tz \in TradeZones

NextTrades ==
    \/ \E id \in TradeIds, d \in TradeDates, r \in TradeResults, s \in TradeRTexts :
           SaveTrade(id, d, r, s)
    \/ \E id \in TradeIds : DeleteTrade(id)

SpecTrades == InitTrades /\ [][NextTrades]_vars

----------------------------------------------------------------------------
(* SpecGoals: one goal of every type, target and end date, measured        *)
(* against a ledger, a position and a payable, around midnight UTC.        *)

GoalZones == {0, 3}

GoalTargetTexts == {T2, TBlank}
GoalEndValues == {Null, <<2024, 2, 29>>, <<2024, 3, 1>>}

\* A backup whose goals the goal form cannot write: an unknown type, no
\* target, an archived goal.
DumpGoals ==
    [s \in {"accounts", "goals"} |->
        IF s = "accounts"
        THEN << [id |-> 1, type |-> "Banka", startingBalance |-> 10000] >>
        ELSE << [id |-> 1, type |-> "savings", targetValue |-> <<200>>,
                 endDate |-> Null, status |-> "active"],
                [id |-> 2, type |-> "actualCash", targetValue |-> Null,
                 endDate |-> Null, status |-> "active"],
                [id |-> 3, type |-> "actualCash", targetValue |-> <<200>>,
                 endDate |-> Null, status |-> "archived"] >>]

InitGoals ==
    /\ InitStore(1, 2)
    /\ now = PnlClock
    /\ tz \in GoalZones

NextGoals ==
    \/ \E type \in GoalTypes, t \in GoalTargetTexts, e \in GoalEndValues :
           SaveGoal(1, type, t, e)
    \/ DeleteGoal(1)
    \/ SaveTx(1, <<2024, 2, 29>>, 1, TMinus30)
    \/ SaveTx(2, <<2024, 2, 29>>, 2, T100)
    \/ \E id \in TxIds : DeleteTx(id)
    \/ SaveInstrument(1)
    \/ SavePosition(1, T2, T100, T100)
    \/ SaveDebt(1, "payable", "open", T200, Null, T60, "Muhtemel")
    \/ ImportAll(DumpGoals)
    \/ Tick(PnlStep)

SpecGoals == InitGoals /\ [][NextGoals]_vars

----------------------------------------------------------------------------
(* SpecAlerts: up to MaxGoals goals of target 1000 beside an expense of    *)
(* 850 and an income of 1700 in the current month.                         *)

T1000 == <<"1", "0", "0", "0">>
TMinus850 == <<"-", "8", "5", "0">>
T1700 == <<"1", "7", "0", "0">>

AlertGoalTypes == {"actualCash", "monthlyExpenseCap"}
\* Blank, and the day before 2024-02-29.
AlertEndValues == {Null, <<2024, 2, 28>>}

InitAlerts ==
    /\ InitStore(1, 2)
    /\ now = PnlClock
    /\ tz = 0

NextAlerts ==
    \/ \E id \in GoalIds, type \in AlertGoalTypes, e \in AlertEndValues :
           SaveGoal(id, type, T1000, e)
    \/ \E id \in GoalIds : DeleteGoal(id)
    \/ SaveTx(1, <<2024, 2, 29>>, 1, TMinus850)
    \/ SaveTx(2, <<2024, 2, 29>>, 1, T1700)
    \/ \E id \in TxIds : DeleteTx(id)

SpecAlerts == InitAlerts /\ [][NextAlerts]_vars

----------------------------------------------------------------------------
(* SpecBackup: records of several collections are written, backups are     *)
(* imported, and the store is exported and imported again.                 *)

\* A backup of all ten collections; the account 1 occurs twice.
DumpFull ==
    [s \in ExportedStores |->
        CASE s = "accounts" ->
               << [id |-> 1, type |-> "Banka", startingBalance |-> 5000],
                  [id |-> 2, type |-> "Nakit", startingBalance |-> 0],
                  [id |-> 1, type |-> "Banka", startingBalance |-> 10000] >>
          [] s = "transactions" ->
               << [id |-> 2, type |-> "normal", date |-> <<2024, 2, 29>>, accountId |-> 1,
                   amount |-> 1000, transferGroupId |-> 0] >>
          [] s = "categories" -> << [id |-> 1, name |-> "Kira"] >>
          [] s = "instruments" -> << [id |-> 1] >>
          [] s = "positions" ->
               << [id |-> 1, qty |-> 200, avgCost |-> 10000, currentValue |-> 250000] >>
          [] s = "debts" ->
               << [id |-> 2, direction |-> "payable", status |-> "open", amount |-> 20000,
                   dueDate |-> Null, confidence |-> <<60>>] >>
          [] s = "trades" ->
               << [id |-> 1, date |-> <<2024, 2, 29>>, result |-> "win", rMultiple |-> 300] >>
          [] s = "goals" ->
               << [id |-> 1, type |-> "netWorth", targetValue |-> <<200>>,
                   endDate |-> Null, status |-> "active"] >>
          [] s = "snapshots" -> << [id |-> 1, date |-> <<2024, 2, 29>>] >>
          [] OTHER ->
               << [key |-> "seeded", value |-> TRUE],
                  [key |-> "baseCurrency", value |-> "TRY"] >>]

\* A backup without any collection.
DumpEmpty == [s \in {} |-> <<>>]

BackupDumps == {DumpFull, DumpDebts, DumpEmpty}

InitBackup ==
    /\ InitStore(1, 2)
    /\ now = PnlClock
    /\ tz = 0

NextBackup ==
    \/ SaveAccount(2, "Banka", T100)
    \/ SaveTx(1, <<2024, 2, 29>>, 1, TMinus30)
    \/ DeleteAccount(1)
    \/ SaveDebt(1, "receivable", "open", T200, Null, T50, "Muhtemel")
    \/ SaveInstrument(1)
    \/ SavePosition(1, T2, T100, T100)
    \/ SaveTrade(1, <<2024, 2, 29>>, "loss", TMinus1)
    \/ SaveGoal(2, "actualCash", T2, Null)
    \/ \E d \in BackupDumps : ImportAll(d)
    \/ ExportThenImport

SpecBackup == InitBackup /\ [][NextBackup]_vars

----------------------------------------------------------------------------
(* SpecRestore: backups are imported, among them files with a record that  *)
(* has no key.                                                             *)

\* A backup whose second transaction has no id.
DumpKeylessTx ==
    [s \in {"accounts", "transactions", "debts", "meta"} |->
        CASE s = "accounts" ->
               << [id |-> 1, type |-> "Nakit", startingBalance |-> 7000] >>
          [] s = "transactions" ->
               << [id |-> 2, type |-> "normal", date |-> <<2024, 2, 29>>, accountId |-> 1,
                   amount |-> 1000, transferGroupId |-> 0],
                  [type |-> "normal", date |-> <<2024, 2, 29>>, accountId |-> 1,
                   amount |-> 2000, transferGroupId |-> 0] >>
          [] s = "debts" ->
               << [id |-> 2, direction |-> "payable", status |-> "open", amount |-> 20000,
                   dueDate |-> Null, confidence |-> <<60>>] >>
          [] OTHER -> << [key |-> "seeded", value |-> TRUE] >>]

\* A backup whose first account has no id.
DumpKeylessAccount ==
    [s \in {"accounts"} |-> << [type |-> "Banka", startingBalance |-> 5000] >>]

\* A backup whose meta record has no key.
DumpKeylessMeta ==
    [s \in {"accounts", "meta"} |->
        CASE s = "accounts" ->
               << [id |-> 1, type |-> "Banka", startingBalance |-> 5000] >>
          [] OTHER -> << [value |-> TRUE] >>]

BrokenDumps == {DumpKeylessTx, DumpKeylessAccount, DumpKeylessMeta}

InitRestore ==
    /\ InitStore(1, 2)
    /\ now = PnlClock
    /\ tz = 0

NextRestore ==
    \/ SaveAccount(2, "Banka", T100)
    \/ SaveTx(1, <<2024, 2, 29>>, 1, TMinus30)
    \/ DeleteTx(1)
    \/ SaveDebt(1, "receivable", "open", T200, Null, T50, "Muhtemel")
    \/ SaveGoal(2, "actualCash", T2, Null)
    \/ \E d \in BackupDumps : ImportAll(d)
    \/ \E d \in BrokenDumps : ImportAllRejected(d)

SpecRestore == InitRestore /\ [][NextRestore]_vars

----------------------------------------------------------------------------
(* SpecSeed: the app is started again and again, between bookings, backup  *)
(* imports and resets.                                                     *)

\* The full backup without its meta records.
DumpNoMeta == [s \in ExportedStores \ {"meta"} |-> DumpFull[s]]

SeedDumps == {DumpFull, DumpNoMeta, DumpDebts, DumpEmpty}

InitSeed ==
    /\ InitStore(1, 2)
    /\ now = PnlClock
    /\ tz = 0

NextSeed ==
    \/ AppStart
    \/ ResetAll
    \/ \E d \in SeedDumps : ImportAll(d)
    \/ ExportThenImport
    \/ SaveAccount(2, "Banka", T100)
    \/ \E id \in UidSpace : DeleteAccount(id)
    \/ SaveTx(1, <<2024, 2, 29>>, 1, TMinus30)
    \/ DeleteTx(1)
    \/ SetHorizonDays(7)

SpecSeed == InitSeed /\ [][NextSeed]_vars

----------------------------------------------------------------------------
(* SpecAsync: tabs are clicked, a transfer is saved and transactions are   *)
(* deleted while calls of render() are in progress; reads may fail.        *)

InitAsync ==
    /\ InitStore(1, 2)
    /\ now = LedgerClock
    /\ tz = 0

NextAsync ==
    \/ \E t \in Tabs : SetTab(t)
    \/ \E i \in 1..MaxPasses, failed \in SUBSET BalanceReads :
           \E first \in IF failed = {} THEN {Null} ELSE failed :
               PassBalances(i, failed, first)
    \/ \E i \in 1..MaxPasses : PassGoals(i)
    \/ \E i \in 1..MaxPasses : PassMonthly(i)
    \/ \E i \in 1..MaxPasses : PassView(i)
    \/ TransferSave(1, 2, T100, 1, 2)
    \/ TransferResume
    \/ \E id \in TxIds : DeleteTxClick(id)
    \/ JobRender

SpecAsync == InitAsync /\ [][NextAsync]_vars

----------------------------------------------------------------------------
(* SpecCsv: bank files are imported, transactions are edited in the form   *)
(* and deleted.                                                            *)

DescMarket == <<"M", "a", "r", "k", "e", "t">>
DescKiraPadded == <<" ", "K", "i", "r", "a", " ">>
TMinus40 == <<"-", "4", "0">>
TNoAmount == <<"x">>

CellIso == [form |-> "iso", d |-> <<2024, 2, 29>>]
CellDmy == [form |-> "dmy", d |-> <<2024, 2, 29>>]
CellNone == [form |-> "none", d |-> Null]

\* A file with the same movement twice, in two notations of the date, a row
\* without a date and a row with neither description nor amount.
CsvFileA ==
    << [date |-> CellIso, desc |-> DescMarket, amt |-> TMinus30],
       [date |-> CellDmy, desc |-> DescMarket, amt |-> TMinus30],
       [date |-> CellNone, desc |-> DescMarket, amt |-> TMinus40],
       [date |-> CellIso, desc |-> TBlank, amt |-> TNoAmount],
       [date |-> CellIso, desc |-> DescKiraPadded, amt |-> TMinus40] >>

CsvFileB ==
    << [date |-> CellDmy, desc |-> DescMarket, amt |-> TMinus40],
       [date |-> CellDmy, desc |-> DescMarket, amt |-> TMinus30] >>

CsvFiles == {CsvFileA, CsvFileB}

CsvZones == {-3, 0}

InitCsv ==
    /\ InitStore(1, 2)
    /\ now = PnlClock
    /\ tz \in CsvZones

NextCsv ==
    \/ \E f \in CsvFiles : ImportCsv(f, 1, 1)
    \/ \E id \in DOMAIN transactions \cup {1}, t \in {TMinus30, TMinus40} :
           SaveTxForm(id, <<2024, 2, 29>>, 1, 1, DescMarket, t)
    \/ \E id \in TxIds \cup CsvTxIds : DeleteTx(id)

SpecCsv == InitCsv /\ [][NextCsv]_vars

----------------------------------------------------------------------------
(* SpecParse: amounts are typed into the form of a new transaction, as its  *)
(* amount and, the same text, as its description, which is stored as typed.*)

\* The longest typed text, apart from the examples.
MaxLen == 5

AmountAlphabet == {"1", "5", ".", ",", "-"}

TypedTexts == UNION {[1..n -> AmountAlphabet] : n \in 0..MaxLen}

\* The digits after the last separator of a text.
FractionDigits(s) ==
    LET seps == {i \in 1..Len(s) : s[i] \in {".", ","}}
    IN  IF seps = {} THEN 0
        ELSE Cardinality({i \in 1..Len(s) : IsDigit(s[i]) /\ \A j \in seps : j < i})

TDotGrouped == <<"1", ".", "2", "3", "4", ",", "5", "6">>
TCommaGrouped == <<"1", ",", "2", "3", "4", ".", "5", "6">>
TMinusComma == <<"-", "1", "2", ",", "5", "0">>
TEuro == <<"E", "U", "R", " ", "+", "3", "0", ",", "5">>

AmountExamples == {TDotGrouped, TCommaGrouped, TBlank, TMinusComma, TEuro}

\* Amounts are kept in hundredths: the texts have at most two digits after
\* their last separator.
AmountTexts == {s \in TypedTexts : FractionDigits(s) <= 2} \cup AmountExamples

InitParse ==
    /\ InitStore(1, 2)
    /\ now = PnlClock
    /\ tz = 0

NextParse ==
    \/ /\ transactions = EmptyStore
       /\ \E s \in AmountTexts : SaveTxForm(1, <<2024, 2, 29>>, 1, 1, s, s)
    \/ DeleteTx(1)

SpecParse == InitParse /\ [][NextParse]_vars

----------------------------------------------------------------------------
(* SpecDates: files of one row are imported, with dates in every notation. *)

DateZones == {-3, 0, 3}

\* Years as typed in a day.month.year cell: two, three and four digits.
DmyYears == {24, 123, 2024}
DmyDays == {13, 28, 31}
IsoYears == {2024, 2025}
IsoDays == {2, 13, 28}
DateMonths == 1..12

DateCells ==
    {[form |-> "dmy", d |-> <<y, m, d>>] : y \in DmyYears, m \in DateMonths, d \in DmyDays}
    \cup {[form |-> "iso", d |-> <<y, m, d>>] : y \in IsoYears, m \in DateMonths, d \in IsoDays}
    \cup {CellNone}

RowOfDate(cell) == << [date |-> cell, desc |-> DescMarket, amt |-> TMinus30] >>

InitDates ==
    /\ InitStore(1, 2)
    /\ now = PnlClock
    /\ tz \in DateZones

NextDates ==
    \/ /\ transactions = EmptyStore
       /\ \E cell \in DateCells : ImportCsv(RowOfDate(cell), 1, 1)
    \/ \E id \in CsvTxIds : DeleteTx(id)

SpecDates == InitDates /\ [][NextDates]_vars

----------------------------------------------------------------------------
(* SpecConf: debts are saved with every kind of entry in the confidence    *)
(* field.                                                                  *)

T0 == <<"0">>
T5 == <<"5">>
T150 == <<"1", "5", "0">>
TMinus5 == <<"-", "5">>
TLetters == <<"a", "b">>

\* The integers typed in the confidence field, with their values.
ConfIntegers == {<<T0, 0>>, <<T5, 5>>, <<T50, 50>>, <<T150, 150>>, <<TMinus5, -5>>}

ConfTexts == {c[1] : c \in ConfIntegers} \cup {TBlank, TLetters}

ConfPresets == {"Kesin", "Muhtemel"}

InitConf ==
    /\ InitStore(1, 2)
    /\ now = PnlClock
    /\ tz = 0

NextConf ==
    \/ \E id \in DebtIds, dir \in DebtDirections, c \in ConfTexts, p \in ConfPresets :
           SaveDebt(id, dir, "open", T200, Null, c, p)
    \/ \E id \in DebtIds : DeleteDebt(id)

SpecConf == InitConf /\ [][NextConf]_vars

----------------------------------------------------------------------------
(* SpecAdjust: balances are adjusted between bookings.                     *)

AdjustTargetTexts == {T80, T0, TMinus30, TLetters}

InitAdjust ==
    /\ InitStore(1, 2)
    /\ now = LedgerClock
    /\ tz = 0

NextAdjust ==
    \/ \E id \in AccountIds, ty \in LedgerAccountTypes, s \in LedgerStartTexts :
           SaveAccount(id, ty, s)
    \/ \E id \in TxIds, a \in AccountIds, s \in LedgerTxTexts : SaveTx(id, Null, a, s)
    \/ \E id \in TxIds : DeleteTx(id)
    \/ \E id \in TxIds, a \in AccountIds, t \in AdjustTargetTexts :
           ApplyAdjustment(id, a, t)

SpecAdjust == InitAdjust /\ [][NextAdjust]_vars

----------------------------------------------------------------------------
(* Sums over the stored records, stated on the store itself.               *)

RECURSIVE SumOver(_, _)
SumOver(f, S) ==
    IF S = {} THEN 0
    ELSE LET x == CHOOSE y \in S : TRUE IN f[x] + SumOver(f, S \ {x})

StartOf == [k \in DOMAIN accounts |-> accounts[k].startingBalance]

AmountOfTx == [k \in DOMAIN transactions |-> transactions[k].amount]

TxsOfAccount(a) == {k \in DOMAIN transactions : transactions[k].accountId = a}

DanglingTxs == {k \in DOMAIN transactions : transactions[k].accountId \notin DOMAIN accounts}

BankAccounts == {a \in DOMAIN accounts : accounts[a].type = "Banka"}

\* The balance the accounts view shows for each stored account.
ShownBalance == [a \in DOMAIN accounts |->
                    AccountBalance(accounts[a], idbGetAll(transactions))]

----------------------------------------------------------------------------
(* C1: in every store state computeBalances returns actualCash = the sum   *)
(* of startingBalance over all accounts + the sum of amount over all       *)
(* stored transactions, of whatever type and whether or not their          *)
(* accountId names a stored account; one account starting at 100 with      *)
(* transactions -30 and +10 gives 80.                                      *)
C1_ActualCashIsSumOfAll ==
    /\ Balances.actualCash
         = SumOver(StartOf, DOMAIN accounts) + SumOver(AmountOfTx, DOMAIN transactions)
    /\ ( /\ \E a \in DOMAIN accounts :
               DOMAIN accounts = {a} /\ accounts[a].startingBalance = 10000
         /\ \E j, k \in DOMAIN transactions :
               /\ DOMAIN transactions = {j, k} /\ j # k
               /\ transactions[j].amount = -3000 /\ transactions[k].amount = 1000 )
       => Balances.actualCash = 8000

\* A transfer leg and a transaction of no stored account are both counted.
C1_Witness ==
    /\ \E k \in DanglingTxs : transactions[k].amount # 0
    /\ \E k \in DOMAIN transactions : transactions[k].type = "transfer"
    /\ DOMAIN accounts # {}
    /\ Balances.actualCash # 0

(* C2, as claimed: the per-account balances of the accounts view add up to *)
(* actualCash in every store state.                                        *)
C2_BalancesAddUpToActualCash ==
    SumOver(ShownBalance, DOMAIN accounts) = Balances.actualCash

(* C2, amended: the per-account balances add up to actualCash less the     *)
(* amounts of the transactions whose accountId names no stored account; so *)
(* they add up to actualCash whenever no transaction is dangling.          *)
C2_BalancesPlusDanglingAddUp ==
    /\ SumOver(ShownBalance, DOMAIN accounts) + SumOver(AmountOfTx, DanglingTxs)
         = Balances.actualCash
    /\ DanglingTxs = {}
         => SumOver(ShownBalance, DOMAIN accounts) = Balances.actualCash

\* An account was deleted and its transaction stayed.
C2_Witness ==
    /\ DOMAIN accounts # {}
    /\ \E k \in DanglingTxs : transactions[k].amount # 0
    /\ \E k \in DOMAIN transactions \ DanglingTxs : transactions[k].amount # 0

(* C3: cashInBank = the sum of startingBalance over the accounts of type   *)
(* Banka + the sum of amount over exactly the transactions whose accountId *)
(* names a stored account of type Banka; transactions of other accounts    *)
(* and dangling transactions contribute nothing.                           *)
C3_CashInBank ==
    Balances.cashInBank
      = SumOver(StartOf, BankAccounts)
        + SumOver(AmountOfTx, {k \in DOMAIN transactions :
                                   transactions[k].accountId \in BankAccounts})

\* A bank account with a transaction, beside a dangling transaction.
C3_Witness ==
    /\ \E k \in DanglingTxs : transactions[k].amount # 0
    /\ \E k \in DOMAIN transactions :
          transactions[k].accountId \in BankAccounts /\ transactions[k].amount # 0
    /\ \E a \in DOMAIN accounts : a \notin BankAccounts /\ accounts[a].startingBalance # 0

TransferTxs == {k \in DOMAIN transactions : transactions[k].type = "transfer"}

PartnersOf(k) ==
    {j \in TransferTxs \ {k} :
        /\ transactions[j].transferGroupId = transactions[k].transferGroupId
        /\ transactions[j].amount = -transactions[k].amount}

(* C9: in every reachable store state every transfer-typed transaction has *)
(* exactly one partner: another transfer-typed transaction with the same   *)
(* transferGroupId and the opposite amount; so the transfer-typed amounts  *)
(* sum to 0.                                                               *)
C9_TransfersArePaired ==
    /\ \A k \in TransferTxs : Cardinality(PartnersOf(k)) = 1
    /\ SumOver(AmountOfTx, TransferTxs) = 0

InCurrentMonth(d) ==
    LET today == toISODate(now) IN d # Null /\ d[1] = today[1] /\ d[2] = today[2]

PnlCounted ==
    {k \in DOMAIN transactions :
        InCurrentMonth(transactions[k].date) /\ transactions[k].type # "transfer"}

AbsAmountOfTx == [k \in DOMAIN transactions |-> Abs(transactions[k].amount)]

WithoutTransfers ==
    [k \in DOMAIN transactions \ TransferTxs |-> transactions[k]]

(* C8: computeMonthlyPnl counts exactly the transactions dated in the       *)
(* current calendar month, first to last day inclusive, whose type is not  *)
(* transfer; an amount >= 0 adds to income, an amount < 0 adds its         *)
(* absolute value to expense, net = income - expense; a transfer-typed     *)
(* transaction changes none of the three.                                  *)
C8_MonthlyPnl ==
    LET p == computeMonthlyPnl(transactions)
        q == computeMonthlyPnl(WithoutTransfers)
    IN  /\ p.income = SumOver(AmountOfTx, {k \in PnlCounted : transactions[k].amount >= 0})
        /\ p.expense = SumOver(AbsAmountOfTx, {k \in PnlCounted : transactions[k].amount < 0})
        /\ p.net = p.income - p.expense
        /\ p.income = q.income /\ p.expense = q.expense /\ p.net = q.net

\* An expense dated the last day of the month is counted, the transfer leg
\* of the same month is not.
C8_Witness ==
    /\ \E k \in TransferTxs : InCurrentMonth(transactions[k].date)
    /\ \E k \in PnlCounted :
          /\ transactions[k].date = endOfMonthISO
          /\ transactions[k].amount < 0
    /\ computeMonthlyPnl(transactions).expense = 3000
    /\ computeMonthlyPnl(transactions).income = 0

----------------------------------------------------------------------------
(* Debts: expected and risk-adjusted cash.                                 *)

AmountOfDebt == [k \in DOMAIN debts |-> debts[k].amount]

\* The UTC calendar date of the current instant, and that date n days on.
UtcDayNumber == now \div 24

DayNumberOf(d) == DateParseUTC(d) \div 24

ConfidenceOfDebt(k) ==
    IF debts[k].confidence = Null THEN 60 ELSE debts[k].confidence[1]

OpenReceivableIds ==
    {k \in DOMAIN debts : debts[k].direction = "receivable" /\ debts[k].status = "open"}

OpenPayableIds ==
    {k \in DOMAIN debts : debts[k].direction = "payable" /\ debts[k].status = "open"}

DueIds(horizonDays) ==
    {k \in OpenReceivableIds :
        \/ debts[k].dueDate = Null
        \/ DayNumberOf(debts[k].dueDate) <= UtcDayNumber + horizonDays}

ExpectedIds ==
    {k \in DueIds(state.horizonDays) :
        ConfidenceOfDebt(k) >= state.includeConfidenceMin}

C4_WitnessBeyondHorizon ==
    /\ state.horizonDays = 7
    /\ \E k \in OpenReceivableIds :
          /\ debts[k].dueDate # Null
          /\ k \notin DueIds(7)
          /\ ConfidenceOfDebt(k) >= state.includeConfidenceMin
    /\ Balances.expectedCash = Balances.actualCash

WeightOfDebt == [k \in DOMAIN debts |->
                    debts[k].amount * clamp(ConfidenceOfDebt(k), 0, 100)]

\* C5: riskAdjustedCash is actualCash plus, for every open receivable due
\* within the horizon (blank due date included), amount * clamp(confidence/100,
\* 0, 1); the threshold plays no part: under any other minConfidence the value
\* is the same; a single due receivable of 200 at confidence 50 adds 100.
C5_RiskAdjustedCash ==
    /\ Balances.riskAdjustedCash =
          100 * Balances.actualCash + SumOver(WeightOfDebt, DueIds(state.horizonDays))
    /\ \A v \in {0, 30, 60, 90} :
          computeBalances(accounts, transactions, debts, positions,
                          [state EXCEPT !.includeConfidenceMin = v], now).riskAdjustedCash
            = Balances.riskAdjustedCash
    /\ \A k \in DOMAIN debts :
          (/\ DueIds(state.horizonDays) = {k}
           /\ debts[k].amount = 20000
           /\ ConfidenceOfDebt(k) = 50)
          => Balances.riskAdjustedCash = 100 * (Balances.actualCash + 10000)

\* Reached: one due receivable of 200 at confidence 50 under threshold 60:
\* it adds 100 to riskAdjustedCash and nothing to expectedCash.
C5_Witness ==
    /\ state.includeConfidenceMin = 60
    /\ \E k \in DOMAIN debts :
          /\ DueIds(state.horizonDays) = {k}
          /\ debts[k].amount = 20000
          /\ ConfidenceOfDebt(k) = 50
    /\ Balances.riskAdjustedCash = 100 * (Balances.actualCash + 10000)
    /\ Balances.expectedCash = Balances.actualCash

----------------------------------------------------------------------------
(* Net worth.                                                              *)

ValueOfPosition == [k \in DOMAIN positions |-> positions[k].currentValue]

PayablesOnly ==
    [k \in {j \in DOMAIN debts : debts[j].direction = "payable"} |-> debts[k]]

\* C6: debtTotal = openPayablesTotal = the amounts of the open payables;
\* investmentsCurrent = the current values of all positions; netWorth =
\* (actualCash + investmentsCurrent) - debtTotal; without the receivables
\* netWorth is the same.
C6_NetWorth ==
    /\ Balances.debtTotal = Balances.openPayablesTotal
    /\ Balances.openPayablesTotal = SumOver(AmountOfDebt, OpenPayableIds)
    /\ Balances.investmentsCurrent = SumOver(ValueOfPosition, DOMAIN positions)
    /\ Balances.netWorth =
          (Balances.actualCash + Balances.investmentsCurrent) - Balances.debtTotal
    /\ Balances.netWorth =
          computeBalances(accounts, transactions, PayablesOnly, positions,
                          state, now).netWorth

\* Reached: a position, an open payable, an open receivable and a transaction.
C6_Witness ==
    /\ positions # EmptyStore
    /\ OpenPayableIds # {}
    /\ OpenReceivableIds # {}
    /\ Balances.actualCash # 0
    /\ Balances.investmentsCurrent = 250000
    /\ Balances.netWorth = Balances.actualCash + 250000 - 20000

----------------------------------------------------------------------------
(* Debts that are not open.                                                *)

\* The report without the record lists it carries.
Metrics(b) ==
    [b EXCEPT !.accounts = <<>>, !.txs = <<>>, !.debts = <<>>, !.positions = <<>>]

IsOpenIn(store, k) == k \in DOMAIN store /\ store[k].status = "open"

Without(store, k) == [j \in DOMAIN store \ {k} |-> store[j]]

\* This step adds, edits or deletes the debt k, which is open neither before
\* nor after, and changes nothing else.
NonOpenDebtStep(k) ==
    /\ debts' # debts
    /\ ~IsOpenIn(debts, k)
    /\ ~IsOpenIn(debts', k)
    /\ UNCHANGED <<accounts, transactions, positions, state, now>>
    /\ \A j \in DebtIds \ {k} :
          /\ j \in DOMAIN debts <=> j \in DOMAIN debts'
          /\ j \in DOMAIN debts => debts'[j] = debts[j]

\* This step is markDebtClosed on the open debt k.
CloseStep(k) ==
    /\ IsOpenIn(debts, k)
    /\ debts' = [debts EXCEPT ![k].status = "closed"]
    /\ UNCHANGED <<accounts, transactions, positions, state, now>>

\* C7: a step that adds, edits or deletes a debt that is closed, disputed or
\* written off leaves every metric of the report unchanged; a step that closes
\* an open debt leaves the report as if that debt were not stored, and leaves
\* actualCash unchanged.
C7_NonOpenDebtsFeedNothing ==
    [][ \A k \in DebtIds :
          /\ NonOpenDebtStep(k) => Metrics(Balances)' = Metrics(Balances)
          /\ CloseStep(k) =>
               /\ Metrics(Balances)' =
                     Metrics(computeBalances(accounts, transactions, Without(debts, k),
                                             positions, state, now))
               /\ Balances'.actualCash = Balances.actualCash ]_vars

\* Reached: beside an open receivable that is counted, a disputed and due
\* receivable of the same confidence is stored and counted nowhere.
C7_Witness ==
    \E j, k \in DOMAIN debts :
        /\ debts[j].status = "open" /\ debts[j].direction = "receivable"
        /\ debts[k].status = "disputed" /\ debts[k].direction = "receivable"
        /\ debts[k].dueDate = Null /\ ConfidenceOfDebt(k) = 60
        /\ state.includeConfidenceMin = 60
        /\ Balances.expectedCash = Balances.actualCash + 20000
        /\ Balances.openReceivablesTotal = 20000

\* Reached: a closed payable and a written-off receivable, no open debt, and
\* every debt metric at zero.
C7_WitnessClosed ==
    /\ \E k \in DOMAIN debts : debts[k].status = "closed" /\ debts[k].direction = "payable"
    /\ \E k \in DOMAIN debts : debts[k].status = "writtenoff"
    /\ Balances.debtTotal = 0
    /\ Balances.netWorth = Balances.actualCash
    /\ Balances.expectedCash = Balances.actualCash

----------------------------------------------------------------------------
(* Trade journal: drawdown.                                                *)

MonthTrades == {k \in DOMAIN trades : InCurrentMonth(trades[k].date)}

\* j comes before k in the pass: earlier date, or same date and stored first.
PassBefore(j, k) ==
    \/ DateLt(trades[j].date, trades[k].date)
    \/ trades[j].date = trades[k].date /\ j < k

PassUpTo(k) == {j \in MonthTrades : j = k \/ PassBefore(j, k)}

ROfTrade == [k \in DOMAIN trades |-> trades[k].rMultiple]

CumAt(k) == SumOver(ROfTrade, PassUpTo(k))

MaxOf(S) == CHOOSE x \in S : \A y \in S : y <= x

MinOf(S) == CHOOSE x \in S : \A y \in S : x <= y

PeakAt(k) == MaxOf({0} \cup {CumAt(j) : j \in PassUpTo(k)})

TradeStats == computeTradeStats(trades)

\* The month's r-multiples, in pass order, are -1, -1, +3.
ExampleTrades ==
    \E i, j, k \in MonthTrades :
        /\ MonthTrades = {i, j, k}
        /\ PassBefore(i, j) /\ PassBefore(j, k)
        /\ trades[i].rMultiple = -100
        /\ trades[j].rMultiple = -100
        /\ trades[k].rMultiple = 300

\* C10: maxDrawdownR is the least of 0 and of cum - peak after each trade of
\* the current month taken by date ascending, equal dates in stored order,
\* where cum is the running sum of rMultiple and peak the greatest of 0 and
\* the running sums so far; it is never positive; -1, -1, +3 gives -2.
C10_MaxDrawdown ==
    /\ TradeStats.maxDrawdownR =
          MinOf({0} \cup {CumAt(k) - PeakAt(k) : k \in MonthTrades})
    /\ TradeStats.maxDrawdownR <= 0
    /\ ExampleTrades => TradeStats.maxDrawdownR = -200

\* Reached: the month holds -1, -1, +3 in pass order, the last two on the
\* same date, and the drawdown is -2.
C10_Witness ==
    /\ ExampleTrades
    /\ \E j, k \in MonthTrades : j # k /\ trades[j].date = trades[k].date
    /\ TradeStats.maxDrawdownR = -200

\* Reached: a trade stored first but dated later comes later in the pass, and
\* a trade outside the current month is left out.
C10_WitnessOrder ==
    /\ \E j, k \in MonthTrades : j < k /\ PassBefore(k, j)
    /\ MonthTrades # DOMAIN trades
    /\ TradeStats.maxDrawdownR < 0

----------------------------------------------------------------------------
(* Goals: progress.                                                        *)

Monthly == computeMonthlyPnl(transactions)

CurrentOfType ==
    [t \in GoalTypes |->
        IF t = "cashInBank" THEN Balances.cashInBank
        ELSE IF t = "actualCash" THEN Balances.actualCash
        ELSE IF t = "investments" THEN Balances.investmentsCurrent
        ELSE IF t = "netWorth" THEN Balances.netWorth
        ELSE Monthly.expense]

ProgressOf(k) == goalProgress(goals[k], Balances, Monthly)

\* C11: goalProgress is null when the target is missing or the type is not
\* one of the five known types; otherwise it is 0 when the target is 0 and
\* (current / target) * 100 when it is not, current being cashInBank,
\* actualCash, investmentsCurrent, netWorth or the monthly expense by type.
C11_GoalProgress ==
    \A k \in DOMAIN goals :
        IF goals[k].targetValue = Null \/ goals[k].type \notin GoalTypes
        THEN ProgressOf(k) = Null
        ELSE IF goals[k].targetValue[1] = 0
        THEN ProgressOf(k) # Null /\ ProgressOf(k)[1] = 0
        ELSE /\ ProgressOf(k) # Null
             /\ ProgressOf(k)[2] # 0
             /\ ProgressOf(k)[1] * goals[k].targetValue[1]
                  = 100 * CurrentOfType[goals[k].type] * ProgressOf(k)[2]

\* Reached: a netWorth goal of target 2 while netWorth, actualCash,
\* cashInBank and the investments all differ; its progress is netWorth %.
C11_Witness ==
    /\ \E k \in DOMAIN goals :
          /\ goals[k].type = "netWorth"
          /\ goals[k].targetValue = <<200>>
          /\ ProgressOf(k) = <<Balances.netWorth * 100, 200>>
    /\ Balances.netWorth # Balances.actualCash
    /\ Balances.cashInBank # Balances.actualCash
    /\ Balances.investmentsCurrent # 0
    /\ Balances.netWorth # Balances.investmentsCurrent
    /\ Monthly.expense # 0

\* Reached: a goal without target, an archived goal and a goal of target 0
\* are stored.
C11_WitnessNull ==
    /\ \E k \in DOMAIN goals : goals[k].targetValue = Null
    /\ \E k \in DOMAIN goals : goals[k].status = "archived"
    /\ \E k \in DOMAIN goals : goals[k].targetValue = <<0>>

----------------------------------------------------------------------------
(* Goals: expiry.                                                          *)

\* Today's date, as the user's calendar shows it.
Today == toISODate(now)

\* C12: a goal is evaluated for alerting if and only if it is not archived
\* and its endDate is null or not before today; so a goal whose endDate is
\* today is evaluated at every hour of that day.
C12_EvaluatedThroughEndDate ==
    \A k \in DOMAIN goals :
        GoalEvaluated(goals[k], now)
          <=> /\ goals[k].status # "archived"
              /\ goals[k].endDate = Null \/ DateLe(Today, goals[k].endDate)

----------------------------------------------------------------------------
(* Goals: the alerts presented.                                            *)

\* The evaluated goal k has a percentage of at least 80 (targets >= 0).
Qualifies(k) ==
    /\ GoalEvaluated(goals[k], now)
    /\ goals[k].type \in GoalTypes
    /\ goals[k].targetValue # Null
    /\ goals[k].targetValue[1] > 0
    /\ CurrentOfType[goals[k].type] * 100 >= 80 * goals[k].targetValue[1]

Qualifying == {k \in DOMAIN goals : Qualifies(k)}

\* The number of qualifying goals stored before goal k.
QualifyingBefore(k) == Cardinality({j \in Qualifying : j < k})

\* C13: the alerts presented are the first three (or fewer) qualifying goals
\* in storage order, nothing else and in no other order; a qualifying
\* monthlyExpenseCap goal gives a warning, any other a notice; a cap of 1000
\* with a monthly expense of 850 qualifies with 85.
C13_FirstThreeQualifying ==
    /\ Len(alerts) = Min2(3, Cardinality(Qualifying))
    /\ \A i \in 1..Len(alerts) :
          /\ alerts[i].goal \in Qualifying
          /\ QualifyingBefore(alerts[i].goal) = i - 1
          /\ alerts[i].kind = "warning" <=> goals[alerts[i].goal].type = "monthlyExpenseCap"
          /\ alerts[i].kind = "notice" <=> goals[alerts[i].goal].type # "monthlyExpenseCap"
    /\ \A k \in DOMAIN goals :
          (/\ GoalEvaluated(goals[k], now)
           /\ goals[k].type = "monthlyExpenseCap"
           /\ goals[k].targetValue = <<100000>>
           /\ Monthly.expense = 85000)
          => k \in Qualifying /\ PctRound(ProgressOf(k)) = 85

\* Reached: four goals qualify, three are presented, one of them the cap of
\* 1000 used to 85 %.
C13_Witness ==
    /\ Cardinality(Qualifying) = 4
    /\ Len(alerts) = 3
    /\ \E i \in 1..Len(alerts) : alerts[i].kind = "warning" /\ alerts[i].shown = 85
    /\ \E i \in 1..Len(alerts) : alerts[i].kind = "notice"

\* Reached: a goal that does not qualify is stored between two that do, and
\* an expired goal is passed over.
C13_WitnessSkipped ==
    /\ \E i, j, k \in DOMAIN goals :
          i < j /\ j < k /\ i \in Qualifying /\ j \notin Qualifying /\ k \in Qualifying
    /\ \E k \in DOMAIN goals : ~GoalEvaluated(goals[k], now)
    /\ Len(alerts) = 2

----------------------------------------------------------------------------
(* Backup and restore.                                                     *)

\* The collection of that name after the step.
StoreAfter(name) ==
    CASE name = "accounts" -> accounts'
      [] name = "transactions" -> transactions'
      [] name = "categories" -> categories'
      [] name = "instruments" -> instruments'
      [] name = "positions" -> positions'
      [] name = "debts" -> debts'
      [] name = "trades" -> trades'
      [] name = "goals" -> goals'
      [] name = "snapshots" -> snapshots'
      [] OTHER -> meta'

KeyOfRecord(name, rec) == IF name = "meta" THEN rec.key ELSE rec.id

\* The records of an array, the last one of each key.
LastOfEachKey(name, arr) ==
    LET keys == {KeyOfRecord(name, arr[i]) : i \in 1..Len(arr)}
        last(k) == CHOOSE i \in 1..Len(arr) :
                       /\ KeyOfRecord(name, arr[i]) = k
                       /\ \A j \in (i + 1)..Len(arr) : KeyOfRecord(name, arr[j]) # k
    IN  [k \in keys |-> arr[last(k)]]

\* C14: when importAll(data) completes, each of the ten collections holds
\* exactly the records of the array of that name in data, the last one winning
\* for a repeated id, and nothing of what it held before; a collection whose
\* array is absent from data is empty.
C14_ImportReplacesEverything ==
    [][\A d \in BackupDumps :
         ImportAll(d) =>
             \A name \in ExportedStores :
                 StoreAfter(name) = LastOfEachKey(name, DumpArray(d, name))]_vars

\* The full backup was imported over a store that held other records: the
\* repeated account has its last balance, the goal and the debt of before are gone.
C14_Witness ==
    /\ snapshots # EmptyStore
    /\ DOMAIN accounts = {1, 2}
    /\ accounts[1].startingBalance = 10000
    /\ DOMAIN goals = {1}
    /\ DOMAIN debts = {2}
    /\ DOMAIN meta = {"baseCurrency", "seeded"}

\* A backup with two arrays only was imported: the other collections are empty.
C14_WitnessAbsent ==
    /\ DOMAIN debts = {1, 2}
    /\ meta = EmptyStore
    /\ categories = EmptyStore
    /\ transactions = EmptyStore

\* C15: exporting the store and importing that export, with no write in
\* between, leaves the report of computeBalances as it was (same settings,
\* same day).
C15_RoundTripKeepsBalances ==
    [][ExportThenImport => Balances' = Balances]_vars

\* A store with an account, a transaction, a debt and a position, whose report
\* is not the one of an empty store, as it is exported and imported.
C15_Witness ==
    /\ transactions # EmptyStore
    /\ debts # EmptyStore
    /\ positions # EmptyStore
    /\ accounts # EmptyStore
    /\ Balances.netWorth # 0
    /\ ImportStore(transactions, exportAll["transactions"]) = transactions
    /\ ImportMeta(meta, exportAll["meta"]) = meta

----------------------------------------------------------------------------
(* CSV import.                                                             *)

\* The transactions that the step has inserted.
CsvInserted == DOMAIN transactions' \ DOMAIN transactions

\* A step of the import inserts a row only if its hash is the hash of no
\* stored transaction and of no row inserted before it in the same import;
\* every row that is not bad has its hash stored afterwards; and the same
\* file with the same mapping, imported again, inserts nothing.
CsvImportDedupes(f, accId, catId) ==
    /\ \A k \in CsvInserted :
           /\ transactions'[k].hash \notin ExistingHashes(transactions)
           /\ \A j \in CsvInserted \ {k} : transactions'[j].hash # transactions'[k].hash
           /\ \E i \in 1..Len(f) :
                  [id |-> k] @@ CsvCandidate(f[i], accId, catId) = transactions'[k]
    /\ \A k \in DOMAIN transactions : transactions'[k] = transactions[k]
    /\ \A i \in 1..Len(f) :
           CsvCandidate(f[i], accId, catId) # Null
               => CsvCandidate(f[i], accId, catId).hash \in ExistingHashes(transactions')
    /\ CsvImported(transactions', f, accId, catId) = transactions'

\* The transactions created by the CSV import (the form creates the others).
CsvCreated == DOMAIN transactions \cap CsvTxIds

\* C16: since a row is inserted only if its hash is among neither the stored
\* hashes nor those of rows inserted earlier in the import, no two stored
\* transactions created by CSV import share a hash.
C16_NoTwoCsvCreatedShareHash ==
    \A j \in CsvCreated, k \in CsvCreated :
        j # k => transactions[j].hash # transactions[k].hash

\* The hash that the import wrote is still the hash of the record.
HasCsvHash(t) == HashOf(t) # Null /\ HashOf(t)[6] = "csv"

NoTwoCsvHashesAlike(store) ==
    \A j \in DOMAIN store, k \in DOMAIN store :
        j # k /\ HasCsvHash(store[j]) /\ HasCsvHash(store[k])
            => store[j].hash # store[k].hash

\* The part of C16 that the import keeps by itself: a row is inserted only if
\* its hash is among neither the stored hashes nor those of rows inserted
\* earlier in the import; no two stored transactions that still carry the hash
\* of their import share it; the same file imported again with the same
\* mapping, with no write in between, inserts nothing.
CsvImportKeepsDedupe ==
    [][/\ \A f \in CsvFiles :
              ImportCsv(f, 1, 1) => CsvImportDedupes(f, 1, 1)
       /\ NoTwoCsvHashesAlike(transactions')]_vars

\* Both files were imported: the movement that the two files and the two
\* notations of one file share is stored once, with three records in all.
CsvImportedTwice ==
    /\ tz = 0
    /\ Cardinality(CsvCreated) = 3
    /\ \A k \in CsvCreated : HasCsvHash(transactions[k])
    /\ CsvImported(transactions, CsvFileA, 1, 1) = transactions
    /\ CsvImported(transactions, CsvFileB, 1, 1) = transactions

----------------------------------------------------------------------------
(* Zero divisors.                                                          *)

\* The goals whose targetValue is 0.
ZeroTargetGoals == {k \in DOMAIN goals : goals[k].targetValue = <<0>>}

\* C17: a zero divisor never yields NaN or Infinity: winRate is 0 when the
\* month has no trade, goalProgress is 0 when targetValue is 0, and every
\* percentage of the goals view, the one of the progress bar included, is a
\* finite number when the targetValue of the goal is 0.
C17_ZeroDivisorsGiveFiniteNumbers ==
    /\ computeTradeStats(trades).total = 0 => computeTradeStats(trades).winRate = <<0, 1>>
    /\ \A k \in ZeroTargetGoals : goalProgress(goals[k], Balances, Monthly) = <<0, 1>>
    /\ LET cards == viewGoals(goals, Balances, Monthly)
       IN  \A i \in 1..Len(cards) :
               cards[i].goal \in ZeroTargetGoals
                   => /\ cards[i].pct.kind = "finite"
                      /\ cards[i].barPct.kind = "finite"
                      /\ cards[i].width.kind = "finite"

----------------------------------------------------------------------------
(* Stored debts.                                                           *)

\* C18: in every reachable state of the store every stored debt has an amount
\* of at least 0, whatever its direction, and an integer confidence between 0
\* and 100.
C18_StoredDebtsAreNormalised ==
    \A k \in DOMAIN debts :
        /\ debts[k].amount >= 0
        /\ debts[k].confidence # Null
        /\ debts[k].confidence[1] \in 0..100

----------------------------------------------------------------------------
(* Deleting an account.                                                    *)

\* C19: deleting an account removes that account record and nothing else, no
\* transaction in particular: its transactions stay stored, with an accountId
\* that names no account, and the render after it completes: computeBalances
\* gives the figure shown, and the rows of those transactions an empty cell.
C19_DeleteAccountKeepsTransactions ==
    [][\A id \in AccountIds :
         DeleteAccount(id) =>
             /\ DOMAIN accounts' = DOMAIN accounts \ {id}
             /\ \A k \in DOMAIN accounts' : accounts'[k] = accounts[k]
             /\ transactions' = transactions
             /\ \A k \in TxsOfAccount(id) : k \in DanglingTxs'
             /\ kpiActual' = Balances'.actualCash
             /\ LET rows == viewTransactions(accounts', transactions')
                IN  \A i \in 1..Len(rows) :
                        rows[i].tx \in TxsOfAccount(id) => rows[i].account = ""]_vars

\* An account with a transaction was deleted while another account remains.
C19_Witness ==
    /\ accounts # EmptyStore
    /\ \E k \in DanglingTxs : transactions[k].accountId \in AccountIds
    /\ kpiActual = Balances.actualCash

----------------------------------------------------------------------------
(* parseAmount.                                                            *)

\* The characters of a text that are digits, separators or signs.
Cleaned(s) == SelectSeq(s, LAMBDA c : IsDigit(c) \/ c \in {".", ",", "+", "-"})

\* The place of the decimal separator: the last "." or "," (0: none).
DecimalAt(t) ==
    LET seps == {i \in 1..Len(t) : t[i] \in {".", ","}}
    IN  IF seps = {} THEN 0 ELSE CHOOSE i \in seps : \A j \in seps : j <= i

\* The digits of t at the places of the set, as a number.
RECURSIVE DigitsAt(_, _)
DigitsAt(t, places) ==
    IF places = {} THEN 0
    ELSE LET last == CHOOSE i \in places : \A j \in places : j <= i
         IN  DigitsAt(t, places \ {last}) * 10 + DigitVal(t[last])

\* The amount that the text stands for, in hundredths: the last separator is
\* the decimal one and the others, grouping ones, count for nothing; what is
\* left is a number if it has a digit and no sign but one in front of all the
\* digits and of the decimal separator; 0 when it is no number.
AmountMeant(s) ==
    LET t == Cleaned(s)
        p == DecimalAt(t)
        digits == {i \in 1..Len(t) : IsDigit(t[i])}
        signs == {i \in 1..Len(t) : t[i] \in {"+", "-"}}
        intDigits == IF p = 0 THEN digits ELSE {i \in digits : i < p}
        fracDigits == IF p = 0 THEN {} ELSE {i \in digits : i > p}
        padding == IF Cardinality(fracDigits) = 0 THEN 100
                   ELSE IF Cardinality(fracDigits) = 1 THEN 10 ELSE 1
        mag == DigitsAt(t, intDigits) * 100 + DigitsAt(t, fracDigits) * padding
        signInFront(i) == /\ \A j \in 1..(i - 1) : t[j] \in {".", ","}
                          /\ p = 0 \/ i < p
    IN  IF digits = {} \/ Cardinality(signs) > 1 \/ \E i \in signs : ~signInFront(i)
        THEN 0
        ELSE IF \E i \in signs : t[i] = "-" THEN -mag ELSE mag

\* C20: parseAmount drops every character other than digits, ".", ",", "+"
\* and "-", takes the last "." or "," of what is left as the decimal separator
\* and removes the other ones, and returns that number, or 0 when it is not a
\* finite number: "1.234,56" and "1,234.56" give 1234.56, "" gives 0 and
\* "-12,50" gives -12.5.
C20_ParseAmount ==
    /\ \A k \in DOMAIN transactions :
           transactions[k].amount = AmountMeant(transactions[k].description)
    /\ parseAmount(TDotGrouped) = 123456
    /\ parseAmount(TCommaGrouped) = 123456
    /\ parseAmount(TBlank) = 0
    /\ parseAmount(TMinusComma) = -1250

\* The amount 1234.56 was typed, with grouping separators.
C20_Witness ==
    /\ 1 \in DOMAIN transactions
    /\ transactions[1].description = TDotGrouped
    /\ transactions[1].amount = 123456

\* A text with a separator before the sign and two after it was typed:
\* ,-1,5 is -1.5.
C20_WitnessGrouping ==
    /\ 1 \in DOMAIN transactions
    /\ transactions[1].description = <<",", "-", "1", ",", "5">>
    /\ transactions[1].amount = -150
----------------------------------------------------------------------------
(* parseDateLoose.                                                         *)

\* A text of the form YYYY-MM-DD.
IsCanonicalDate(t) ==
    /\ Len(t) = 10
    /\ t[5] = "-" /\ t[8] = "-"
    /\ \A i \in {1, 2, 3, 4, 6, 7, 9, 10} : IsDigit(t[i])

\* C21: parseDateLoose returns null or a canonical YYYY-MM-DD text, for every
\* input: a day-month-year input gives year-month-day with that day and
\* month, a two-digit year YY being 2000 + YY, and an input of no pattern
\* gives null (such a row is not imported).
C21_DatesAreCanonical ==
    /\ \A k \in DOMAIN transactions : IsCanonicalDate(DateString(transactions[k].date))
    /\ parseDateLoose([form |-> "dmy", d |-> <<2024, 1, 31>>]) = <<2024, 1, 31>>
    /\ parseDateLoose([form |-> "dmy", d |-> <<24, 1, 31>>]) = <<2024, 1, 31>>
    /\ parseDateLoose(CellNone) = Null

----------------------------------------------------------------------------
(* Saving a transfer.                                                      *)

\* The transactions that the step has stored.
StoredByStep == DOMAIN transactions' \ DOMAIN transactions

\* What a save of the transfer form with these entries has to do.
TransferSavedRight(amtText, from, to) ==
    LET a == parseAmount(amtText)
        size == IF a < 0 THEN -a ELSE a
    IN  /\ \A k \in DOMAIN transactions :
               k \in DOMAIN transactions' /\ transactions'[k] = transactions[k]
        /\ Balances'.actualCash = Balances.actualCash
        /\ IF a # 0 /\ from # to
           THEN /\ Cardinality(StoredByStep) = 2
                /\ \E j \in StoredByStep, k \in StoredByStep :
                       /\ j # k
                       /\ transactions'[j].type = "transfer"
                       /\ transactions'[k].type = "transfer"
                       /\ transactions'[j].accountId = from
                       /\ transactions'[j].amount = -size
                       /\ transactions'[k].accountId = to
                       /\ transactions'[k].amount = size
                       /\ transactions'[j].date = transactions'[k].date
                       /\ transactions'[j].transferGroupId = transactions'[k].transferGroupId
                       /\ transactions'[j].transferGroupId # 0
           ELSE transactions' = transactions

\* C25: saving a transfer leaves actualCash as it was: with an amount a other
\* than 0 and two different accounts it stores exactly two new transfer-typed
\* transactions, -|a| on the sending account and +|a| on the receiving one,
\* of the same date and the same transferGroupId; with the amount 0 or twice
\* the same account it stores nothing.
C25_TransferKeepsActualCash ==
    [][\A f \in TxIds, t \in TxIds, s \in LedgerTransferTexts,
          from \in AccountIds \cup {0}, to \in AccountIds \cup {0} :
           SaveTransfer(f, t, Null, s, from, to) => TransferSavedRight(s, from, to)]_vars

\* The two legs of a transfer between two stored accounts are stored.
C25_Witness ==
    \E j \in DOMAIN transactions, k \in DOMAIN transactions :
        /\ transactions[j].type = "transfer" /\ transactions[k].type = "transfer"
        /\ transactions[j].transferGroupId = transactions[k].transferGroupId
        /\ transactions[j].amount = -transactions[k].amount
        /\ transactions[j].amount < 0
        /\ transactions[j].accountId # transactions[k].accountId
        /\ {transactions[j].accountId, transactions[k].accountId} \subseteq DOMAIN accounts
        /\ kpiActual = Balances.actualCash

----------------------------------------------------------------------------
(* The confidence of a debt.                                               *)

\* C27: a debt saved with an integer c in the confidence field is stored with
\* the confidence clamp(c, 0, 100), for every integer c, 0 included; the
\* preset counts only when the field is empty or holds no number.
C27_TypedConfidenceIsStored ==
    [][\A id \in DebtIds, dir \in DebtDirections, p \in ConfPresets :
         /\ \A c \in ConfIntegers :
                SaveDebt(id, dir, "open", T200, Null, c[1], p)
                    => debts'[id].confidence =
                           <<IF c[2] < 0 THEN 0 ELSE IF c[2] > 100 THEN 100 ELSE c[2]>>
         /\ \A c \in {TBlank, TLetters} :
                SaveDebt(id, dir, "open", T200, Null, c, p)
                    => debts'[id].confidence = <<confidencePresetToValue(p)>>]_vars

----------------------------------------------------------------------------
(* Balance adjustments.                                                    *)

\* The balance of account a over a transaction store.
BalanceOver(a, store) ==
    accounts[a].startingBalance
    + SumOver([k \in DOMAIN store |-> store[k].amount],
              {k \in DOMAIN store : store[k].accountId = a})

\* The target T as the form reads it.
AdjustTargets == {<<T80, 8000>>, <<T0, 0>>, <<TMinus30, -3000>>, <<TLetters, 0>>}

\* C28: an adjustment with the target T stores exactly one new transaction,
\* of the type adjustment, on that account, with the amount T - balance, and
\* the balance of the account is T afterwards; when T is the balance already,
\* nothing is stored.
C28_AdjustmentReachesTarget ==
    [][\A id \in TxIds, a \in AccountIds, t \in AdjustTargets :
         ApplyAdjustment(id, a, t[1]) =>
            LET bal == BalanceOver(a, transactions)
            IN  IF t[2] = bal
                THEN transactions' = transactions
                ELSE /\ id \notin DOMAIN transactions
                     /\ DOMAIN transactions' = DOMAIN transactions \cup {id}
                     /\ \A k \in DOMAIN transactions : transactions'[k] = transactions[k]
                     /\ transactions'[id].type = "adjustment"
                     /\ transactions'[id].accountId = a
                     /\ transactions'[id].amount = t[2] - bal
                     /\ BalanceOver(a, transactions') = t[2]
                     /\ ShownBalance'[a] = t[2]]_vars

\* An adjustment is stored next to a booking, and the balance is the target.
C28_Witness ==
    \E j, k \in DOMAIN transactions :
        /\ transactions[j].type = "adjustment"
        /\ transactions[k].type = "normal"
        /\ transactions[j].accountId = transactions[k].accountId
        /\ transactions[j].amount = 8000 - 10000 + 3000
        /\ BalanceOver(transactions[j].accountId, transactions) = 8000

----------------------------------------------------------------------------
(* A backup import that fails.                                             *)

\* The ten stores together.
AllStores ==
    <<accounts, transactions, categories, instruments, positions, debts, trades,
      goals, snapshots, meta>>

\* C29: importAll is all or nothing: when it fails partway, a store write
\* being rejected, the stores hold exactly the records they held before.
C29_FailedImportChangesNothing ==
    [][\A d \in BrokenDumps : ImportAllRejected(d) => AllStores' = AllStores]_vars

----------------------------------------------------------------------------
(* Seeding of the default records.                                         *)

\* C30: the default records are seeded at most once between resets: after the
\* first seeding, no later start of the app inserts anything, whatever
\* bookings and backup imports come between; a reset leaves exactly the ten
\* categories and two accounts of the seeding and the flag.
C30_SeededOnce ==
    [][/\ AppStart => /\ categories' = categories
                      /\ accounts' = accounts
                      /\ meta' = meta
       /\ ResetAll => /\ {categories'[k].name : k \in DOMAIN categories'}
                           = {DefaultCats[i] : i \in 1..Len(DefaultCats)}
                      /\ Cardinality(DOMAIN categories') = Len(DefaultCats)
                      /\ {accounts'[k].type : k \in DOMAIN accounts'} = {"Banka", "Nakit"}
                      /\ Cardinality(DOMAIN accounts') = 2
                      /\ \A k \in DOMAIN accounts' : accounts'[k].startingBalance = 0
                      /\ meta' = SeedMeta
                      /\ transactions' = EmptyStore /\ debts' = EmptyStore
                      /\ positions' = EmptyStore /\ instruments' = EmptyStore
                      /\ trades' = EmptyStore /\ goals' = EmptyStore
                      /\ snapshots' = EmptyStore]_vars

----------------------------------------------------------------------------
(* render() in progress: overlap, torn reads, failed reads, late writes.   *)

\* C22: under any sequence of events, two calls of render() are never in
\* progress at the same time.
C22_OneRenderAtATime == Len(passes) <= 1

\* A multi-record write is between its writes.
BetweenWrites == job # Null /\ job.pc = "toTx"

\* C23: every multi-record write completes before a render is triggered: no
\* render() starts, and so no computeBalances reads, between the two puts of a
\* transfer.
C23_NoRenderBetweenWrites ==
    [][Len(passes') > Len(passes) => ~BetweenWrites]_vars

\* C24: when one of the four reads of computeBalances fails, computeBalances
\* fails towards its caller with the error of a failed read: render() is
\* rejected with it, nothing is written from the reads that succeeded
\* (#kpiActual, #alerts and #view stay as they were), and the reads are not
\* requested again.
C24_FailedReadFailsTheRender ==
    [][\A i \in 1..MaxPasses, failed \in SUBSET BalanceReads \ {{}} :
         \A first \in failed :
         PassBalances(i, failed, first) =>
            /\ rejected' \in {<<"error", f>> : f \in failed}
            /\ kpiActual' = kpiActual
            /\ alerts' = alerts
            /\ view' = view
            /\ passes' = RemoveAt(passes, i)]_vars

\* A render was rejected with the error of the read of the debts, after a
\* transfer was stored that the page does not show yet.
C24_Witness ==
    /\ rejected = <<"error", "debts">>
    /\ DOMAIN transactions = {1, 2}
    /\ passes = <<>>
    /\ job = Null

\* C26: when the calls of render() that were started have all finished (none
\* of them rejected), #view holds the view of state.tab.
C26_ViewIsOfCurrentTab ==
    (passes = <<>> /\ rejected = Null) => view = tab

============================================================================
